---- MODULE Spec2Model ----
(***************************************************************************)
(* Model of the SD/MMC card emulation of libspectrum (src/mmc.c): the      *)
(* command state machine, the response buffer and the write cache over a   *)
(* backing disk image.                                                     *)
(*                                                                         *)
(* Scaling.  The source moves 512-byte blocks; the model moves blocks of   *)
(* BlockLen = 2 * HalfLen bytes, HalfLen standing for the 256 bytes of a   *)
(* packed sector.  ScaledLen turns a byte count of the source (256, 512)   *)
(* into its model length.  Sector sizes, data offsets and file positions   *)
(* keep their real values.  The response buffer keeps the 20 bytes that    *)
(* SEND_CSD / SEND_CID need.                                               *)
(***************************************************************************)
EXTENDS Integers, Sequences, FiniteSets, TLC

(* ---------------------------------------------------------------------- *)
(* Bounds                                                                  *)
(* ---------------------------------------------------------------------- *)
\* model length of a packed (256-byte) sector
HalfLen == 1
\* number of command frames the host starts in one run
MaxFrames == 2

\* number of threads that share the lock byte
NumThreads == 3
\* failed exchanges counted in one call of atomic_lock or atomic_unlock
MaxSpins == 2
\* libspectrum_zip_next calls made between two rewinds
MaxNext == 10

\* the largest image of the host that exercises SEND_CSD, in cylinders of
\* 16 heads and 32 sectors: one cylinder more than C_SIZE can count
MaxCylinders == 4097

BlockLen == 2 * HalfLen
ScaledLen(n) == (n * HalfLen) \div 256
\* response_buffer[516]: token + status + block + 2 CRC bytes, at least the
\* 20 bytes of a CSD / CID response
ResponseLen == IF BlockLen + 4 > 20 THEN BlockLen + 4 ELSE 20

(* ---------------------------------------------------------------------- *)
(* enum command_state_t                                                    *)
(* ---------------------------------------------------------------------- *)
WAITING_FOR_COMMAND == 0
WAITING_FOR_DATA0 == 1
WAITING_FOR_DATA1 == 2
WAITING_FOR_DATA2 == 3
WAITING_FOR_DATA3 == 4
WAITING_FOR_CRC == 5
WAITING_FOR_DATA_TOKEN == 6
WAITING_FOR_DATA == 7
WAITING_FOR_DATA_CRC1 == 8
WAITING_FOR_DATA_CRC2 == 9

(* ---------------------------------------------------------------------- *)
(* enum command_byte                                                       *)
(* ---------------------------------------------------------------------- *)
GO_IDLE_STATE == 0
SEND_IF_COND == 8
SEND_CSD == 9
SEND_CID == 10
READ_SINGLE_BLOCK == 17
WRITE_BLOCK == 24
APP_SEND_OP_COND == 41
APP_CMD == 55
READ_OCR == 58

SupportedCommands ==
  { GO_IDLE_STATE, SEND_IF_COND, SEND_CSD, SEND_CID, READ_SINGLE_BLOCK,
    WRITE_BLOCK, APP_SEND_OP_COND, APP_CMD, READ_OCR }

LIBSPECTRUM_ERROR_NONE == 0
\* the error libspectrum_ide_insert_into_drive reports for a file it cannot
\* open
LIBSPECTRUM_ERROR_UNKNOWN == 3

(* ---------------------------------------------------------------------- *)
(* The backing images (the files libspectrum_ide_insert_into_drive opens)  *)
(* ---------------------------------------------------------------------- *)
NoFile == "NULL"
\* drive.disk of a card that libspectrum_mmc_alloc has just allocated: the
\* field is not initialised
WildFile == "uninitialised"
Files == { "a.hdf", "b.hdf", "c.hdf" }
\* the images the hosts below read and write blocks of
StorageFiles == { "a.hdf", "b.hdf" }
MissingFile == "missing.hdf"

\* geometry and format the HDF header of each file gives
Geometry(f) ==
  IF f = "a.hdf"
    THEN [ sector_size |-> 512, data_offset |-> 128,
           cylinders |-> 4, heads |-> 16, sectors |-> 16 ]
  ELSE IF f = "b.hdf"
    THEN [ sector_size |-> 256, data_offset |-> 128,
           cylinders |-> 2, heads |-> 2, sectors |-> 64 ]
    ELSE [ sector_size |-> 512, data_offset |-> 128,
           cylinders |-> 2, heads |-> 16, sectors |-> 16 ]

TotalSectors(f) ==
  Geometry(f).cylinders * Geometry(f).heads * Geometry(f).sectors

\* the sector numbers the host's argument bytes can form
ModelSectors == { 0, 256 }

\* the bytes sector n of file f holds before anything is committed to it
OrigByte(f, n) ==
  (IF f = "a.hdf" THEN 16 ELSE IF f = "b.hdf" THEN 32 ELSE 48)
    + (n % 8) + 8 * ((n \div 256) % 2)
OrigBlock(f, n) ==
  [ i \in 0 .. ScaledLen(Geometry(f).sector_size) - 1 |-> OrigByte(f, n) ]

\* 32-bit values (libspectrum_dword, gint) are carried as the two's
\* complement integer with the same 32 bits.

\* data_offset + sector_size * sector_number, the product taken in 32 bits.
\* The product is a multiple of 256 for both sector sizes; the position
\* data_offset + 256 * k is the pair << data_offset, k >>.
SectorPosition(data_offset, sector_size, sector_number) ==
  << data_offset,
     ((sector_size \div 256) * (sector_number % 16777216)) % 16777216 >>

\* a file as a map from the file position of a sector to that sector's bytes
OrigImage(f) ==
  LET secs == { n \in ModelSectors : n < TotalSectors(f) }
      pos(n) == SectorPosition(Geometry(f).data_offset,
                               Geometry(f).sector_size, n)
  IN [ p \in { pos(n) : n \in secs } |->
         OrigBlock(f, CHOOSE n \in secs : pos(n) = p) ]


(* ---------------------------------------------------------------------- *)
(* State                                                                   *)
(* ---------------------------------------------------------------------- *)
VARIABLES
  card,      \* the libspectrum_mmc_card structure
  images,    \* the contents of the backing image files
  ret,       \* what the last call returned to the host
  aborted,   \* the process has ended in abort() or on a wild pointer
  frames,    \* command frames the host has started
  host,      \* the host's record of the frame it is sending
  written    \* the host's record of the blocks it has written

vars == << card, images, ret, aborted, frames, host, written >>

Bytes == 0 .. 255

\* the bytes of a fresh response_buffer: not initialised, and never read
\* before a response is written over them
FreshResponseBuffer == [ i \in 0 .. ResponseLen - 1 |-> 170 ]

(* ---------------------------------------------------------------------- *)
(* myglib/glock.c: atomic_lock, atomic_unlock                              *)
(* ---------------------------------------------------------------------- *)
VARIABLES
  lock_ptr,  \* the atomic_char the threads share
  thread     \* for each thread: where it is, its locals, its failed exchanges

glock_vars == << lock_ptr, thread >>

Threads == 1 .. NumThreads

\* atomic_compare_exchange_strong( object, &expected, desired ), one atomic
\* step: [ res, object, expected ]
atomic_compare_exchange_strong(object, expected, desired) ==
  IF object = expected
    THEN [ res |-> 1, object |-> desired, expected |-> expected ]
    ELSE [ res |-> 0, object |-> object, expected |-> object ]

\* the locals of a thread that is in neither function
NoLocals == [ unlocked |-> 0, locked |-> 1 ]

\* the locals declared once before the loop: an iteration finds in them
\* what the exchange of the iteration before has left
iteration_locals_hoisted(th) == [ unlocked |-> th.unlocked, locked |-> th.locked ]

\* the locals unlocked and locked, initialised in every iteration of the loop
iteration_locals(th) == [ unlocked |-> 0, locked |-> 1 ]

\* one iteration of the loop of atomic_lock: [ res, object, thread ]
atomic_lock_iteration(object, th) ==
  LET l == iteration_locals(th)
      r == atomic_compare_exchange_strong(object, l.unlocked, l.locked)
  IN [ res |-> r.res, object |-> r.object,
       thread |-> [ th EXCEPT !.unlocked = r.expected, !.locked = l.locked ] ]

\* one iteration of the loop of atomic_unlock: [ res, object, thread ]
atomic_unlock_iteration(object, th) ==
  LET l == iteration_locals(th)
      r == atomic_compare_exchange_strong(object, l.locked, l.unlocked)
  IN [ res |-> r.res, object |-> r.object,
       thread |-> [ th EXCEPT !.locked = r.expected, !.unlocked = l.unlocked ] ]

\* no thread has called either function, the lock byte is 0
GlockInit ==
  /\ lock_ptr = 0
  /\ thread = [ t \in Threads |->
                  [ pc |-> "outside", unlocked |-> NoLocals.unlocked,
                    locked |-> NoLocals.locked, spins |-> 0 ] ]

(* ---------------------------------------------------------------------- *)
(* zip.c: the archive                                                      *)
(* ---------------------------------------------------------------------- *)
\* The archive in memory is a sequence of cells.  A header is one cell that
\* holds its fields, followed by padding up to the size of the header; a
\* byte of a name or of file data is one cell.  Sizes are in cells.
ZIP_FILE_HEADER_SIZE == 2
ZIP_LOCAL_HEADER_SIZE == 2
ZIP_FILE_HEADER_SIG == "PK0102"
ZIP_LOCAL_HEADER_SIG == "PK0304"
ZIP_SUPPORTED_VERSION == 20
\* sizeof( z->file_name )
FileNameSize == 3

LIBSPECTRUM_ERROR_CORRUPT == 4
LIBSPECTRUM_ERROR_INVALID == 7

ByteCell(v) == [ kind |-> "byte", value |-> v ]
ByteCells(vs) == [ i \in 1 .. Len(vs) |-> ByteCell(vs[i]) ]

\* what the zlib functions make of file data
SumOf(vs) == IF Len(vs) = 0 THEN 0
             ELSE IF Len(vs) = 1 THEN vs[1]
             ELSE IF Len(vs) = 2 THEN vs[1] + vs[2]
             ELSE vs[1] + vs[2] + vs[3]
crc32(vs) == ( 31 * SumOf(vs) + Len(vs) ) % 65521
\* libspectrum_zip_inflate: [ error, buffer ]
libspectrum_zip_inflate(vs) ==
  IF SumOf(vs) % 2 = 1
    THEN [ error |-> LIBSPECTRUM_ERROR_CORRUPT, buffer |-> << >> ]
    ELSE [ error |-> LIBSPECTRUM_ERROR_NONE,
           buffer |-> [ i \in 1 .. Len(vs) |-> (vs[i] + 1) % 256 ] ]

\* a local file header and the cells of a central directory entry
LocalHeader(required_version, name_size, extra_field_size) ==
  << [ kind |-> "local", magic |-> ZIP_LOCAL_HEADER_SIG,
       required_version |-> required_version,
       name_size |-> name_size, extra_field_size |-> extra_field_size ],
     ByteCell(0) >>

FileHeader(name, compression, crc, csize, usize, extra, file_offset) ==
  << [ kind |-> "file", magic |-> ZIP_FILE_HEADER_SIG,
       creator_version |-> 3 * 256 + 20,
       compression |-> compression, crc |-> crc,
       compressed_size |-> csize,
       uncompressed_size |-> usize,
       name_size |-> Len(name), extra_field_size |-> extra,
       comment_size |-> 0, file_offset |-> file_offset ],
     ByteCell(0) >>
  \o ByteCells(name)
  \o [ i \in 1 .. extra |-> ByteCell(0) ]

\* the end of central directory record
EndRecord(directory_offset, file_count) ==
  << [ kind |-> "end", directory_offset |-> directory_offset,
       file_count |-> file_count ] >>

\* the file data the archives hold, after a local header at offset 0 with
\* a name of one byte; a second local header asks for a later version
FileData == << 7, 9 >>
LocalPart ==
  LocalHeader(20, 1, 0) \o ByteCells(<< 101 >>) \o ByteCells(FileData)
  \o LocalHeader(99, 0, 0)
GoodLocal == 0
LaterVersionLocal == Len(LocalPart) - ZIP_LOCAL_HEADER_SIZE

\* mixed.zip: one entry for every way libspectrum_zip_read can return
MixedDirectory ==
     FileHeader(<< 101 >>, 0, crc32(FileData), 2, 2, 0, GoodLocal)
  \o FileHeader(<< 102 >>, 0, 0, 0, 0, 0, GoodLocal)
  \o FileHeader(<< 103, 103, 103 >>, 0, crc32(FileData), 2, 2, 0, GoodLocal)
  \o FileHeader(<< 104 >>, 0, 0, 40, 40, 0, GoodLocal)
  \o FileHeader(<< 105 >>, 12, 0, 2, 2, 1, GoodLocal)
  \o FileHeader(<< 106 >>, 8, crc32(libspectrum_zip_inflate(FileData).buffer),
                2, 2, 0, GoodLocal)
  \o FileHeader(<< 107 >>, 8, 0, 1, 1, 0, GoodLocal)
  \o FileHeader(<< 108 >>, 0, 1 + crc32(FileData), 2, 2, 0, GoodLocal)
  \o FileHeader(<< 109 >>, 0, 0, 2, 2, 0, LaterVersionLocal)

\* damaged.zip: the second entry of the directory is not a header, and the
\* directory is shorter than the count of the end record says
DamagedDirectory ==
     FileHeader(<< 101 >>, 0, crc32(FileData), 2, 2, 0, GoodLocal)
  \o ByteCells(<< 0, 0 >>)
  \o FileHeader(<< 103 >>, 0, crc32(FileData), 2, 2, 0, GoodLocal)

\* long.zip: the first and the last entry have names that do not fit
LongDirectory ==
     FileHeader(<< 101, 101, 101, 101 >>, 0, crc32(FileData), 2, 2, 0, GoodLocal)
  \o FileHeader(<< 102, 102 >>, 0, crc32(FileData), 2, 2, 2, GoodLocal)
  \o FileHeader(<< 103, 103, 103 >>, 0, crc32(FileData), 2, 2, 0, GoodLocal)

Archives == { "mixed.zip", "damaged.zip", "long.zip" }

\* the cells of an archive; offset n is the cell input_data(a)[n + 1]
input_data(a) ==
  IF a = "mixed.zip"
    THEN LocalPart \o MixedDirectory \o EndRecord(Len(LocalPart), 9)
  ELSE IF a = "damaged.zip"
    THEN LocalPart \o DamagedDirectory \o EndRecord(Len(LocalPart), 5)
    ELSE LocalPart \o LongDirectory \o EndRecord(Len(LocalPart), 3)

\* z->end, as an offset from z->input_data
zip_end(a) == Len(input_data(a))

(* ---------------------------------------------------------------------- *)
(* zip.c: struct libspectrum_zip and the functions on it                   *)
(* ---------------------------------------------------------------------- *)
ARCHIVE_CLOSED == 0
ARCHIVE_OPEN == 1

\* the fields of a header read from cells that hold no header of the kind
\* asked for: the magic does not match
NoFileInfo ==
  [ magic |-> "", creator_version |-> 0, compression |-> 0, crc |-> 0,
    compressed_size |-> 0, uncompressed_size |-> 0, name_size |-> 0,
    extra_field_size |-> 0, comment_size |-> 0, file_offset |-> 0 ]

\* seek: [ rc, z ]; whence is "SEEK_SET" or "SEEK_CUR"
seek(z, offset, whence) ==
  LET ptr == IF whence = "SEEK_SET" THEN offset ELSE z.ptr + offset
  IN IF ptr < 0 \/ ptr > zip_end(z.input_data)
       THEN [ rc |-> -1, z |-> z ]
       ELSE [ rc |-> 0, z |-> [ z EXCEPT !.ptr = ptr ] ]

\* read_file_header: [ retval, file_info ]
read_file_header(a, buffer) ==
  IF buffer + ZIP_FILE_HEADER_SIZE > zip_end(a)
    THEN [ retval |-> 0, file_info |-> NoFileInfo ]
    ELSE LET cell == input_data(a)[ buffer + 1 ]
         IN [ retval |-> ZIP_FILE_HEADER_SIZE,
              file_info |->
                IF cell.kind = "file"
                  THEN [ f \in DOMAIN NoFileInfo |-> cell[f] ]
                  ELSE NoFileInfo ]

\* read_local_header: [ retval, header ]
read_local_header(a, buffer) ==
  IF buffer + ZIP_LOCAL_HEADER_SIZE > zip_end(a)
    THEN [ retval |-> 0,
           header |-> [ magic |-> "", required_version |-> 0,
                        name_size |-> 0, extra_field_size |-> 0 ] ]
    ELSE LET cell == input_data(a)[ buffer + 1 ]
         IN [ retval |-> ZIP_LOCAL_HEADER_SIZE,
              header |->
                IF cell.kind = "local"
                  THEN [ magic |-> cell.magic,
                         required_version |-> cell.required_version,
                         name_size |-> cell.name_size,
                         extra_field_size |-> cell.extra_field_size ]
                  ELSE [ magic |-> "", required_version |-> 0,
                         name_size |-> 0, extra_field_size |-> 0 ] ]

\* the values of the cells from offset ptr, size of them
CellValues(a, ptr, size) ==
  [ i \in 1 .. size |->
      LET cell == input_data(a)[ ptr + i ]
      IN IF cell.kind = "byte" THEN cell.value ELSE 0 ]

\* libspectrum_zip_rewind that leaves file_index where it is
libspectrum_zip_rewind_keeps_index(z) ==
  IF z.state = ARCHIVE_CLOSED
    THEN [ error |-> LIBSPECTRUM_ERROR_INVALID, z |-> z ]
    ELSE LET s == seek(z, z.directory_offset, "SEEK_SET")
         IN IF s.rc # 0
              THEN [ error |-> LIBSPECTRUM_ERROR_CORRUPT, z |-> z ]
              ELSE [ error |-> LIBSPECTRUM_ERROR_NONE,
                     z |-> [ s.z EXCEPT !.state = ARCHIVE_OPEN ] ]

\* libspectrum_zip_rewind: [ error, z ]
libspectrum_zip_rewind(z) ==
  IF z.state = ARCHIVE_CLOSED
    THEN [ error |-> LIBSPECTRUM_ERROR_INVALID, z |-> z ]
    ELSE LET s == seek(z, z.directory_offset, "SEEK_SET")
         IN IF s.rc # 0
              THEN [ error |-> LIBSPECTRUM_ERROR_CORRUPT, z |-> z ]
              ELSE [ error |-> LIBSPECTRUM_ERROR_NONE,
                     z |-> [ s.z EXCEPT !.file_index = 0,
                                        !.state = ARCHIVE_OPEN ] ]

\* read_directory: [ rc, z ]
RECURSIVE read_directory(_)

\* the end of a pass of the loop: skip to the next file header, then go
\* round again when the name did not fit
read_directory_skip(z, skip, retry) ==
  LET s == IF skip > 0 THEN seek(z, skip, "SEEK_CUR")
           ELSE [ rc |-> 0, z |-> z ]
  IN IF s.rc # 0 THEN [ rc |-> 1, z |-> z ]
     ELSE IF retry THEN read_directory(s.z)
     ELSE [ rc |-> 0, z |-> s.z ]

\* read the name of the entry whose header is in z.file_info
read_directory_name(z) ==
  LET name_size == z.file_info.name_size
      skip == z.file_info.comment_size + z.file_info.extra_field_size
                + name_size
  IN IF z.ptr + name_size > zip_end(z.input_data)
       THEN [ rc |-> 1, z |-> z ]
     ELSE IF name_size < FileNameSize
       THEN read_directory_skip(
              [ z EXCEPT !.file_name =
                  CellValues(z.input_data, z.ptr, name_size) ],
              skip, FALSE)
       ELSE read_directory_skip(z, skip, TRUE)

\* verify the header that read_file_header returned as h
read_directory_header(z, h) ==
  IF h.retval = 0
    THEN [ rc |-> 1, z |-> z ]
  ELSE IF h.file_info.magic # ZIP_FILE_HEADER_SIG
    THEN [ rc |-> 1,
           z |-> [ z EXCEPT !.file_info = h.file_info,
                            !.ptr = z.ptr + h.retval ] ]
    ELSE read_directory_name(
           [ z EXCEPT !.file_info = h.file_info,
                      !.ptr = z.ptr + h.retval,
                      !.file_ignore_case =
                        IF h.file_info.creator_version \div 256 # 3
                          THEN 1 ELSE 0 ])

read_directory(z) ==
  IF z.file_index >= z.file_count
    THEN [ rc |-> 1, z |-> z ]
    ELSE read_directory_header(
           [ z EXCEPT !.file_index = z.file_index + 1 ],
           read_file_header(z.input_data, z.ptr))

\* dump_entry_stat: the zip_stat of the entry read last
dump_entry_stat(z) ==
  [ name |-> z.file_name,
    size |-> z.file_info.uncompressed_size,
    index |-> z.file_index - 1 ]

\* libspectrum_zip_next: [ error, z, info ]; info is meaningful when error
\* is LIBSPECTRUM_ERROR_NONE
libspectrum_zip_next(z) ==
  IF z.state = ARCHIVE_CLOSED
    THEN [ error |-> LIBSPECTRUM_ERROR_INVALID, z |-> z, info |-> << >> ]
    ELSE LET r == read_directory(z)
         IN IF r.rc # 0
              THEN [ error |-> LIBSPECTRUM_ERROR_UNKNOWN, z |-> r.z, info |-> << >> ]
              ELSE [ error |-> LIBSPECTRUM_ERROR_NONE, z |-> r.z,
                     info |-> dump_entry_stat(r.z) ]

\* prepare_stream: [ rc, z ]
\* verify the local header and skip its variable fields
prepare_stream_skip(z, header) ==
  LET version == header.required_version % 256
      skip == header.name_size + header.extra_field_size
      k == seek(z, skip, "SEEK_CUR")
  IN IF header.magic # ZIP_LOCAL_HEADER_SIG THEN [ rc |-> 1, z |-> z ]
     ELSE IF version > ZIP_SUPPORTED_VERSION THEN [ rc |-> 1, z |-> z ]
     ELSE IF k.rc # 0 THEN [ rc |-> 1, z |-> z ]
     ELSE [ rc |-> 0, z |-> k.z ]

\* l is what read_local_header returned at z->ptr
prepare_stream_header(z, l) ==
  IF l.retval = 0
    THEN [ rc |-> 1, z |-> z ]
    ELSE prepare_stream_skip([ z EXCEPT !.ptr = z.ptr + l.retval ], l.header)

prepare_stream(z) ==
  LET s == seek(z, z.file_info.file_offset, "SEEK_SET")
  IN IF s.rc # 0
       THEN [ rc |-> 1, z |-> z ]
       ELSE prepare_stream_header(s.z,
                                  read_local_header(z.input_data, s.z.ptr))

\* decompress_stream: [ rc, z, buffer ]
decompress_stream(z) ==
  LET file_compressed_left == z.file_info.compressed_size
  IN IF file_compressed_left = 0
       THEN [ rc |-> 1, z |-> z, buffer |-> << >> ]
     ELSE IF z.ptr + file_compressed_left > zip_end(z.input_data)
       THEN [ rc |-> 1, z |-> z, buffer |-> << >> ]
     ELSE LET i == libspectrum_zip_inflate(
                     CellValues(z.input_data, z.ptr, file_compressed_left))
          IN IF i.error # LIBSPECTRUM_ERROR_NONE
               THEN [ rc |-> 1, z |-> z, buffer |-> << >> ]
               ELSE [ rc |-> 0,
                      z |-> [ z EXCEPT !.ptr = z.ptr + file_compressed_left ],
                      buffer |-> i.buffer ]

\* libspectrum_zip_read: [ error, z, buffer ]
\* the end of the function: z->ptr = last, then the CRC of the buffer
libspectrum_zip_read_crc(z, last, buffer) ==
  [ error |-> IF crc32(buffer) # z.file_info.crc
                THEN LIBSPECTRUM_ERROR_CORRUPT
                ELSE LIBSPECTRUM_ERROR_NONE,
    z |-> [ z EXCEPT !.ptr = last ],
    buffer |-> buffer ]

\* case 8; d is what decompress_stream returned
libspectrum_zip_read_deflate(d, last) ==
  IF d.rc # 0
    THEN [ error |-> LIBSPECTRUM_ERROR_CORRUPT,
           z |-> [ d.z EXCEPT !.ptr = last ], buffer |-> << >> ]
    ELSE libspectrum_zip_read_crc(d.z, last, d.buffer)

\* from *size = z->file_info.uncompressed_size to the end of the switch
libspectrum_zip_read_data(z, last) ==
  LET size == z.file_info.uncompressed_size
      compression == z.file_info.compression
  IN IF size = 0
       THEN [ error |-> LIBSPECTRUM_ERROR_UNKNOWN, z |-> z, buffer |-> << >> ]
     ELSE IF compression = 0
       THEN IF z.ptr + size > zip_end(z.input_data)
              THEN [ error |-> 1, z |-> z, buffer |-> << >> ]
              ELSE libspectrum_zip_read_crc(
                     z, last, CellValues(z.input_data, z.ptr, size))
     ELSE IF compression = 8
       THEN libspectrum_zip_read_deflate(decompress_stream(z), last)
     ELSE [ error |-> 1, z |-> [ z EXCEPT !.ptr = last ], buffer |-> << >> ]

\* p is what prepare_stream returned, last is z->ptr on entry
libspectrum_zip_read_prepared(p, last) ==
  IF p.rc # 0
    THEN [ error |-> LIBSPECTRUM_ERROR_UNKNOWN,
           z |-> [ p.z EXCEPT !.ptr = last ], buffer |-> << >> ]
    ELSE libspectrum_zip_read_data(p.z, last)

libspectrum_zip_read(z) ==
  libspectrum_zip_read_prepared(prepare_stream(z), z.ptr)

\* libspectrum_zip_open on an archive whose end of central directory record
\* locate_directory has found: the structure it returns
libspectrum_zip_open(a) ==
  LET info == input_data(a)[ zip_end(a) ]
      z == [ state |-> ARCHIVE_OPEN, input_data |-> a, ptr |-> 0,
             directory_offset |-> info.directory_offset,
             file_count |-> info.file_count,
             file_index |-> 0, file_info |-> NoFileInfo,
             file_name |-> << >>, file_ignore_case |-> 0 ]
  IN libspectrum_zip_rewind(z).z

(* ---------------------------------------------------------------------- *)
(* zip.c: the state of one open archive and of its caller                  *)
(* ---------------------------------------------------------------------- *)
VARIABLES
  zip,       \* struct libspectrum_zip; ptr is an offset from input_data
  call,      \* the last call made on the archive: its name, z->ptr on entry
             \* and what it returned
  history,   \* what the libspectrum_zip_next calls since the last rewind
             \* returned: << [ error, info ] >>
  previous   \* history as it was at the last rewind

zip_vars == << zip, call, history, previous >>

NoCall == [ op |-> "", ptr |-> 0, error |-> LIBSPECTRUM_ERROR_NONE ]

\* no archive is open: the caller holds a null pointer
NoZip ==
  [ state |-> ARCHIVE_CLOSED, input_data |-> "", ptr |-> 0,
    directory_offset |-> 0, file_count |-> 0, file_index |-> 0,
    file_info |-> NoFileInfo, file_name |-> << >>, file_ignore_case |-> 0 ]

ZipInit ==
  /\ zip = NoZip
  /\ call = NoCall
  /\ history = << >>
  /\ previous = << >>

\* the state of the parts other than the card
not_mmc == << glock_vars, zip_vars >>
OthersInit == GlockInit /\ ZipInit

(* ---------------------------------------------------------------------- *)
(* libspectrum_mmc_read                                                    *)
(* ---------------------------------------------------------------------- *)
\* mmc_read_byte with the guard lost: past the end of the window it hands
\* back a byte of the buffer
mmc_read_byte_stale(c) ==
  IF c.response_buffer_next < c.response_buffer_end
    THEN c.response_buffer[ c.response_buffer_next ]
    ELSE c.response_buffer[ 0 ]

\* the byte libspectrum_mmc_read returns
mmc_read_byte(c) ==
  IF c.response_buffer_next < c.response_buffer_end
    THEN c.response_buffer[ c.response_buffer_next ]
    ELSE 255

\* the card after libspectrum_mmc_read
mmc_read_card(c) ==
  IF c.response_buffer_next < c.response_buffer_end
    THEN [ c EXCEPT !.response_buffer_next = c.response_buffer_next + 1 ]
    ELSE c

(* ---------------------------------------------------------------------- *)
(* Responses                                                               *)
(* ---------------------------------------------------------------------- *)
\* set_response_buffer_r1 that leaves the read cursor where it was
set_response_buffer_r1_keeps_cursor(c) ==
  [ c EXCEPT !.response_buffer[0] = c.is_idle,
             !.response_buffer_end = 1 ]

\* set_response_buffer_r1 that reports "not idle" whatever the flag
set_response_buffer_r1_not_idle(c) ==
  [ c EXCEPT !.response_buffer[0] = 0,
             !.response_buffer_next = 0,
             !.response_buffer_end = 1 ]

set_response_buffer_r1(c) ==
  [ c EXCEPT !.response_buffer[0] = c.is_idle,
             !.response_buffer_next = 0,
             !.response_buffer_end = 1 ]

set_response_buffer_r7(c, value) ==
  [ c EXCEPT !.response_buffer[0] = c.is_idle,
             !.response_buffer[1] = (value \div 16777216) % 256,
             !.response_buffer[2] = (value \div 65536) % 256,
             !.response_buffer[3] = (value \div 256) % 256,
             !.response_buffer[4] = value % 256,
             !.response_buffer_next = 0,
             !.response_buffer_end = 5 ]

\* the 32-bit value the four argument bytes form, first byte most significant
argument_value(c) ==
  c.current_argument[3] +
  c.current_argument[2] * 256 +
  c.current_argument[1] * 65536 +
  ( IF c.current_argument[0] < 128
      THEN c.current_argument[0]
      ELSE c.current_argument[0] - 256 ) * 16777216

\* fseek + fread of one sector at file position pos: the set of outcomes,
\* the block read or a failure (seek failure or short read).  Through a
\* wild FILE pointer the call may fail or hand back any bytes.
ReadError == [ ok |-> FALSE, data |-> << >> ]
seek_and_read(drv, imgs, pos) ==
  IF drv.disk = WildFile
    THEN { ReadError } \cup
         { [ ok |-> TRUE,
             data |-> [ i \in 0 .. ScaledLen(drv.sector_size) - 1 |-> b ] ]
           : b \in { 0, 170 } }
    ELSE IF pos \in DOMAIN imgs[drv.disk]
           THEN { [ ok |-> TRUE, data |-> imgs[drv.disk][pos] ] }
           ELSE { ReadError }

\* read_single_block with the sector bytes in buffer
fill_block_response(c, buffer) ==
  LET payload ==
        IF c.drive.sector_size = 256
          THEN [ j \in 0 .. 2 * ScaledLen(256) - 1 |->
                   IF j % 2 = 0 THEN buffer[ j \div 2 ] ELSE 255 ]
          ELSE [ j \in 0 .. ScaledLen(512) - 1 |-> buffer[ j ] ]
  IN [ c EXCEPT
         !.response_buffer =
            [ i \in 0 .. ResponseLen - 1 |->
                IF i = 0 THEN c.is_idle
                ELSE IF i = 1 THEN 254
                ELSE IF i >= 2 /\ i < 2 + BlockLen THEN payload[ i - 2 ]
                ELSE IF i >= 2 + BlockLen /\ i < 4 + BlockLen THEN 0
                ELSE c.response_buffer[ i ] ],
         !.response_buffer_next = 0,
         !.response_buffer_end = 4 + BlockLen ]

\* read_single_block that goes to the image without looking in the cache
read_single_block_no_cache(c, imgs) ==
  LET drv == c.drive
      sector_position ==
        SectorPosition(drv.data_offset, drv.sector_size, argument_value(c))
  IN { IF ~ r.ok
         THEN [ rc |-> 1, card |-> c ]
         ELSE [ rc |-> 0, card |-> fill_block_response(c, r.data) ]
       : r \in seek_and_read(drv, imgs, sector_position) }

\* read_single_block that takes the argument for a byte offset
read_single_block_byte_offset(c, imgs) ==
  LET drv == c.drive
      sector_number == argument_value(c) \div 512
      sector_position ==
        SectorPosition(drv.data_offset, drv.sector_size, sector_number)
  IN IF sector_number \in DOMAIN c.cache
       THEN { [ rc |-> 0,
                card |-> fill_block_response(c, c.cache[ sector_number ]) ] }
       ELSE { IF ~ r.ok
                THEN [ rc |-> 1, card |-> c ]
                ELSE [ rc |-> 0, card |-> fill_block_response(c, r.data) ]
              : r \in seek_and_read(drv, imgs, sector_position) }

\* the set of outcomes of read_single_block: [ rc, card ]
read_single_block(c, imgs) ==
  LET drv == c.drive
      sector_number == argument_value(c)
  IN IF sector_number \in DOMAIN c.cache
       THEN { [ rc |-> 0, card |-> fill_block_response(c, c.cache[sector_number]) ] }
       ELSE LET sector_position ==
                  SectorPosition(drv.data_offset, drv.sector_size, sector_number)
            IN { IF ~ r.ok
                   THEN [ rc |-> 1, card |-> c ]
                   ELSE [ rc |-> 0, card |-> fill_block_response(c, r.data) ]
                 : r \in seek_and_read(drv, imgs, sector_position) }

\* csd_response with the low two bits of C_SIZE shifted by 5 instead of 6
csd_response_short_shift(c) ==
  [ c EXCEPT
      !.response_buffer =
         [ i \in 0 .. ResponseLen - 1 |->
             IF i = 0 THEN c.is_idle
             ELSE IF i = 1 THEN 254
             ELSE IF i = 2 + 5 THEN 9
             ELSE IF i = 2 + 6 THEN (c.c_size \div 1024) % 256
             ELSE IF i = 2 + 7 THEN (c.c_size \div 4) % 256
             ELSE IF i = 2 + 8 THEN ((c.c_size % 4) * 32) % 256
             ELSE IF i = 2 + 9 THEN 3
             ELSE IF i = 2 + 10 THEN 128
             ELSE IF i < 20 THEN 0
             ELSE c.response_buffer[ i ] ],
      !.response_buffer_next = 0,
      !.response_buffer_end = 20 ]

\* the 20-byte response of SEND_CSD
csd_response(c) ==
  [ c EXCEPT
      !.response_buffer =
         [ i \in 0 .. ResponseLen - 1 |->
             IF i = 0 THEN c.is_idle
             ELSE IF i = 1 THEN 254
             ELSE IF i = 2 + 5 THEN 9
             ELSE IF i = 2 + 6 THEN (c.c_size \div 1024) % 256
             ELSE IF i = 2 + 7 THEN (c.c_size \div 4) % 256
             ELSE IF i = 2 + 8 THEN ((c.c_size % 4) * 64) % 256
             ELSE IF i = 2 + 9 THEN 3
             ELSE IF i = 2 + 10 THEN 128
             ELSE IF i < 20 THEN 0
             ELSE c.response_buffer[ i ] ],
      !.response_buffer_next = 0,
      !.response_buffer_end = 20 ]

\* the 20-byte response of SEND_CID
cid_response(c) ==
  [ c EXCEPT
      !.response_buffer =
         [ i \in 0 .. ResponseLen - 1 |->
             IF i = 0 THEN c.is_idle
             ELSE IF i = 1 THEN 254
             ELSE IF i < 20 THEN 0
             ELSE c.response_buffer[ i ] ],
      !.response_buffer_next = 0,
      !.response_buffer_end = 20 ]

\* the set of outcomes of do_command: [ abort, card ]
do_command(c, imgs) ==
  IF c.drive.disk = NoFile THEN { [ abort |-> FALSE, card |-> c ] }
  ELSE IF c.current_command = GO_IDLE_STATE
    THEN { [ abort |-> FALSE,
             card |-> set_response_buffer_r1([ c EXCEPT !.is_idle = 1 ]) ] }
  ELSE IF c.current_command = SEND_IF_COND
    THEN { [ abort |-> FALSE, card |-> set_response_buffer_r7(c, 426) ] }
  ELSE IF c.current_command = SEND_CSD
    THEN { [ abort |-> FALSE, card |-> csd_response(c) ] }
  ELSE IF c.current_command = SEND_CID
    THEN { [ abort |-> FALSE, card |-> cid_response(c) ] }
  ELSE IF c.current_command = READ_SINGLE_BLOCK
    THEN { [ abort |-> (o.rc # 0), card |-> o.card ]
           : o \in read_single_block(c, imgs) }
  ELSE IF c.current_command = WRITE_BLOCK
    THEN { [ abort |-> FALSE, card |-> set_response_buffer_r1(c) ] }
  ELSE IF c.current_command = APP_SEND_OP_COND
    THEN { [ abort |-> FALSE,
             card |-> set_response_buffer_r1([ c EXCEPT !.is_idle = 0 ]) ] }
  ELSE IF c.current_command = APP_CMD
    THEN { [ abort |-> FALSE, card |-> set_response_buffer_r1(c) ] }
  ELSE IF c.current_command = READ_OCR
    THEN { [ abort |-> FALSE, card |-> set_response_buffer_r7(c, - 1073741824) ] }
  ELSE { [ abort |-> TRUE, card |-> c ] }


(* ---------------------------------------------------------------------- *)
(* The data phase of WRITE_BLOCK                                           *)
(* ---------------------------------------------------------------------- *)
\* packed_block that keeps the odd bytes of the payload for 256-byte sectors
packed_block_odd_bytes(c) ==
  IF c.drive.sector_size = 256
    THEN [ i \in 0 .. ScaledLen(256) - 1 |-> c.send_buffer[ i * 2 + 1 ] ]
    ELSE [ i \in 0 .. ScaledLen(512) - 1 |-> c.send_buffer[ i ] ]

\* the bytes write_single_block stores in the cache buffer
packed_block(c) ==
  IF c.drive.sector_size = 256
    THEN [ i \in 0 .. ScaledLen(256) - 1 |-> c.send_buffer[ i * 2 ] ]
    ELSE [ i \in 0 .. ScaledLen(512) - 1 |-> c.send_buffer[ i ] ]

\* the cache libspectrum_mmc_alloc creates
EmptyCache == [ k \in {} |-> << >> ]

\* g_hash_table_insert / overwrite of the buffer found
cache_put(cache, key, buffer) ==
  [ k \in DOMAIN cache \cup { key } |->
      IF k = key THEN buffer ELSE cache[k] ]

\* write_single_block that keeps only the sector written last
write_single_block_single_entry(c) ==
  [ c EXCEPT !.cache = cache_put(EmptyCache, argument_value(c), packed_block(c)) ]

\* write_single_block that leaves the buffer of a sector already in the
\* cache as it is
write_single_block_keeps_first(c) ==
  IF argument_value(c) \in DOMAIN c.cache
    THEN c
    ELSE [ c EXCEPT !.cache = cache_put(c.cache, argument_value(c), packed_block(c)) ]

write_single_block(c) ==
  LET sector_number == argument_value(c)
  IN [ c EXCEPT !.cache = cache_put(c.cache, sector_number, packed_block(c)) ]

\* the set of outcomes of do_command_data: [ abort, card ]
do_command_data(c) ==
  IF c.current_command = WRITE_BLOCK
    THEN { [ abort |-> FALSE,
             card |-> [ write_single_block(c) EXCEPT
                          !.response_buffer[0] = 5,
                          !.response_buffer[1] = 5,
                          !.response_buffer_next = 0,
                          !.response_buffer_end = 2 ] ] }
    ELSE { [ abort |-> TRUE, card |-> c ] }

(* ---------------------------------------------------------------------- *)
(* The command state machine                                               *)
(* ---------------------------------------------------------------------- *)
\* parse_command: [ abort, ok, card ]
\* parse_command without the test of the start and transmitter bits
parse_command_no_framing(c, b) ==
  LET command == b % 64
  IN IF command \in SupportedCommands
       THEN [ abort |-> FALSE, ok |-> 1,
              card |-> [ c EXCEPT !.current_command = command ] ]
       ELSE [ abort |-> TRUE, ok |-> 0, card |-> c ]

parse_command(c, b) ==
  IF (b \div 64) * 64 # 64
    THEN [ abort |-> FALSE, ok |-> 0, card |-> c ]
    ELSE LET command == b % 64
         IN IF command \in SupportedCommands
              THEN [ abort |-> FALSE, ok |-> 1,
                     card |-> [ c EXCEPT !.current_command = command ] ]
              ELSE [ abort |-> TRUE, ok |-> 0, card |-> c ]

\* accept_command that goes on to the argument bytes although the byte was
\* not a command byte
accept_command_always_advances(c, data) ==
  LET p == parse_command(c, data)
  IN [ abort |-> p.abort,
       card |-> [ p.card EXCEPT !.command_state = WAITING_FOR_DATA0 ] ]

\* accept_command that empties the response window when a frame starts
accept_command_clears_window(c, data) ==
  LET p == parse_command(c, data)
  IN [ abort |-> p.abort,
       card |-> IF p.ok # 0
                  THEN [ p.card EXCEPT !.command_state = WAITING_FOR_DATA0,
                                       !.response_buffer_next = 0,
                                       !.response_buffer_end = 0 ]
                  ELSE p.card ]

\* WAITING_FOR_COMMAND: the byte is a command byte or is dropped
accept_command(c, data) ==
  LET p == parse_command(c, data)
  IN [ abort |-> p.abort,
       card |-> IF p.ok # 0
                  THEN [ p.card EXCEPT !.command_state = WAITING_FOR_DATA0 ]
                  ELSE p.card ]

\* accept_argument that stores the bytes least significant first
accept_argument_lsb_first(c, data) ==
  [ c EXCEPT !.current_argument[ 4 - c.command_state ] = data,
             !.command_state = c.command_state + 1 ]

\* WAITING_FOR_DATA0 .. WAITING_FOR_DATA3: the byte is an argument byte
accept_argument(c, data) ==
  [ c EXCEPT !.current_argument[ c.command_state - 1 ] = data,
             !.command_state = c.command_state + 1 ]

\* WAITING_FOR_CRC: the state after do_command has returned
state_after_command(c) ==
  [ c EXCEPT !.command_state =
      IF c.current_command = WRITE_BLOCK
        THEN WAITING_FOR_DATA_TOKEN
        ELSE WAITING_FOR_COMMAND ]

\* accept_data_token that takes a command byte for the start of a new frame
accept_data_token_parses(c, data) ==
  IF data = 254
    THEN [ c EXCEPT !.command_state = WAITING_FOR_DATA, !.data_count = 0 ]
    ELSE IF (data \div 64) * 64 = 64 /\ data % 64 \in SupportedCommands
      THEN [ c EXCEPT !.current_command = data % 64,
                      !.command_state = WAITING_FOR_DATA0 ]
      ELSE c

\* WAITING_FOR_DATA_TOKEN: wait for the 0xfe token
accept_data_token(c, data) ==
  IF data = 254
    THEN [ c EXCEPT !.command_state = WAITING_FOR_DATA, !.data_count = 0 ]
    ELSE c

\* accept_data that always stores at the start of the buffer
accept_data_no_advance(c, data) ==
  [ c EXCEPT !.send_buffer[ 0 ] = data,
             !.data_count = c.data_count + 1,
             !.command_state =
                IF c.data_count + 1 = BlockLen
                  THEN WAITING_FOR_DATA_CRC1
                  ELSE c.command_state ]

\* accept_data that leaves WAITING_FOR_DATA one byte late
accept_data_one_late(c, data) ==
  [ c EXCEPT !.send_buffer[ c.data_count ] = data,
             !.data_count = c.data_count + 1,
             !.command_state =
                IF c.data_count + 1 = BlockLen + 1
                  THEN WAITING_FOR_DATA_CRC1
                  ELSE c.command_state ]

\* WAITING_FOR_DATA: the byte is a byte of the block
accept_data(c, data) ==
  [ c EXCEPT !.send_buffer[ c.data_count ] = data,
             !.data_count = c.data_count + 1,
             !.command_state =
                IF c.data_count + 1 = BlockLen
                  THEN WAITING_FOR_DATA_CRC1
                  ELSE c.command_state ]

\* the set of outcomes of libspectrum_mmc_write( card, data ): [ abort, card ]
mmc_write(c, data, imgs) ==
  IF c.command_state = WAITING_FOR_COMMAND
    THEN { accept_command(c, data) }
  ELSE IF c.command_state \in WAITING_FOR_DATA0 .. WAITING_FOR_DATA3
    THEN { [ abort |-> FALSE, card |-> accept_argument(c, data) ] }
  ELSE IF c.command_state = WAITING_FOR_CRC
    THEN { [ abort |-> o.abort,
             card |-> IF o.abort THEN o.card ELSE state_after_command(o.card) ]
           : o \in do_command(c, imgs) }
  ELSE IF c.command_state = WAITING_FOR_DATA_TOKEN
    THEN { [ abort |-> FALSE, card |-> accept_data_token(c, data) ] }
  ELSE IF c.command_state = WAITING_FOR_DATA
    THEN { [ abort |-> FALSE, card |-> accept_data(c, data) ] }
  ELSE IF c.command_state = WAITING_FOR_DATA_CRC1
    THEN { [ abort |-> FALSE,
             card |-> [ c EXCEPT !.command_state = WAITING_FOR_DATA_CRC2 ] ] }
  ELSE IF c.command_state = WAITING_FOR_DATA_CRC2
    THEN { [ abort |-> o.abort,
             card |-> IF o.abort THEN o.card
                      ELSE [ o.card EXCEPT !.command_state = WAITING_FOR_COMMAND ] ]
           : o \in do_command_data(c) }
  ELSE { [ abort |-> FALSE, card |-> c ] }

(* ---------------------------------------------------------------------- *)
(* The drive (ide.c, not part of the sources at hand)                      *)
(* ---------------------------------------------------------------------- *)
\* libspectrum_ide_eject_from_drive: close the image, discard the cache.
\* The set of outcomes [ abort, card ]; closing a wild FILE pointer may end
\* the process.
libspectrum_ide_eject_from_drive(c) ==
  LET ejected == [ c EXCEPT !.drive.disk = NoFile, !.cache = EmptyCache ]
  IN IF c.drive.disk = WildFile
       THEN { [ abort |-> TRUE, card |-> c ], [ abort |-> FALSE, card |-> ejected ] }
       ELSE { [ abort |-> FALSE, card |-> ejected ] }

\* the image after every cached sector has been written at its position
committed_image(drv, cache, image) ==
  LET pos(n) == SectorPosition(drv.data_offset, drv.sector_size, n)
      touched == { pos(n) : n \in DOMAIN cache }
  IN [ p \in DOMAIN image \cup touched |->
         IF p \in touched
           THEN cache[ CHOOSE n \in DOMAIN cache : pos(n) = p ]
           ELSE image[p] ]

\* libspectrum_ide_commit_drive: write every cached sector to the image, then
\* clear the cache.  The set of outcomes [ abort, card, images ]; with
\* sectors to write and no open image the write goes through a null or wild
\* FILE pointer.
libspectrum_ide_commit_drive(c, imgs) ==
  IF c.drive.disk \in Files
    THEN { [ abort |-> FALSE,
             card |-> [ c EXCEPT !.cache = EmptyCache ],
             images |-> [ imgs EXCEPT ![ c.drive.disk ] =
                            committed_image(c.drive, c.cache, imgs[ c.drive.disk ]) ] ] }
  ELSE IF c.cache = EmptyCache
    THEN { [ abort |-> FALSE, card |-> c, images |-> imgs ] }
  ELSE { [ abort |-> TRUE, card |-> c, images |-> imgs ],
         [ abort |-> FALSE, card |-> [ c EXCEPT !.cache = EmptyCache ],
           images |-> imgs ] }

\* libspectrum_ide_insert_into_drive: [ error, drive ]
libspectrum_ide_insert_into_drive(drv, filename) ==
  IF filename \in Files
    THEN [ error |-> LIBSPECTRUM_ERROR_NONE,
           drive |-> [ disk |-> filename,
                       sector_size |-> Geometry(filename).sector_size,
                       data_offset |-> Geometry(filename).data_offset,
                       cylinders |-> Geometry(filename).cylinders,
                       heads |-> Geometry(filename).heads,
                       sectors |-> Geometry(filename).sectors ] ]
    ELSE [ error |-> LIBSPECTRUM_ERROR_UNKNOWN, drive |-> drv ]

(* ---------------------------------------------------------------------- *)
(* Media                                                                   *)
(* ---------------------------------------------------------------------- *)
\* C_SIZE of a drive, as libspectrum_mmc_insert derives it
mmc_c_size(drv) ==
  LET total_sectors == drv.cylinders * drv.heads * drv.sectors
      c_size == (total_sectors \div 512) - 1
  IN \* the comparison is unsigned: -1 is 0xffffffff
     IF c_size < 0 \/ c_size >= 4096 THEN 4096 - 1 ELSE c_size

\* libspectrum_mmc_eject that closes the image and keeps the cache
libspectrum_mmc_eject_keeps_cache(c) ==
  { [ abort |-> o.abort,
      card |-> IF o.abort THEN o.card ELSE [ o.card EXCEPT !.cache = c.cache ] ]
    : o \in libspectrum_ide_eject_from_drive(c) }

libspectrum_mmc_eject(c) == libspectrum_ide_eject_from_drive(c)

libspectrum_mmc_dirty(c) == Cardinality(DOMAIN c.cache) # 0

\* libspectrum_mmc_commit that drops the cache without writing it
libspectrum_mmc_commit_discards(c, imgs) ==
  { [ abort |-> FALSE, card |-> [ c EXCEPT !.cache = EmptyCache ],
      images |-> imgs ] }

libspectrum_mmc_commit(c, imgs) == libspectrum_ide_commit_drive(c, imgs)

\* libspectrum_mmc_insert that ejects only when it is given a file to open
libspectrum_mmc_insert_null_keeps(c, filename) ==
  IF filename = NoFile
    THEN { [ abort |-> FALSE, error |-> LIBSPECTRUM_ERROR_NONE, card |-> c ] }
    ELSE { IF e.abort
             THEN [ abort |-> TRUE, error |-> LIBSPECTRUM_ERROR_NONE, card |-> e.card ]
           ELSE LET i == libspectrum_ide_insert_into_drive(e.card.drive, filename)
                IN IF i.error # LIBSPECTRUM_ERROR_NONE
                     THEN [ abort |-> FALSE, error |-> i.error, card |-> e.card ]
                     ELSE [ abort |-> FALSE, error |-> LIBSPECTRUM_ERROR_NONE,
                            card |-> [ e.card EXCEPT !.drive = i.drive ] ]
           : e \in libspectrum_ide_eject_from_drive(c) }

\* the set of outcomes of libspectrum_mmc_insert: [ abort, error, card ]
libspectrum_mmc_insert(c, filename) ==
  { IF e.abort
      THEN [ abort |-> TRUE, error |-> LIBSPECTRUM_ERROR_NONE, card |-> e.card ]
    ELSE IF filename = NoFile
      THEN [ abort |-> FALSE, error |-> LIBSPECTRUM_ERROR_NONE, card |-> e.card ]
    ELSE LET i == libspectrum_ide_insert_into_drive(e.card.drive, filename)
         IN IF i.error # LIBSPECTRUM_ERROR_NONE
              THEN [ abort |-> FALSE, error |-> i.error, card |-> e.card ]
              ELSE [ abort |-> FALSE, error |-> LIBSPECTRUM_ERROR_NONE,
                     card |-> [ e.card EXCEPT !.drive = i.drive,
                                              !.c_size = mmc_c_size(i.drive) ] ]
    : e \in libspectrum_mmc_eject(c) }

(* ---------------------------------------------------------------------- *)
(* libspectrum_mmc_alloc                                                   *)
(* ---------------------------------------------------------------------- *)
\* The fields libspectrum_mmc_alloc does not set hold whatever the allocator
\* left there.  Those the code reads before it writes them take several
\* values: drive.disk (null or not), drive.sector_size (the two sizes the
\* code tells apart) and, read by SEND_CSD when drive.disk is not null,
\* c_size.
libspectrum_mmc_alloc ==
  { [ drive |-> [ disk |-> d, sector_size |-> ss, data_offset |-> 0,
                  cylinders |-> 0, heads |-> 0, sectors |-> 0 ],
      cache |-> EmptyCache,
      c_size |-> cs,
      is_idle |-> 0,
      command_state |-> WAITING_FOR_COMMAND,
      current_command |-> 63,
      current_argument |-> [ i \in 0 .. 3 |-> 0 ],
      data_count |-> 0,
      send_buffer |-> [ i \in 0 .. BlockLen - 1 |-> 0 ],
      response_buffer |-> FreshResponseBuffer,
      response_buffer_end |-> 0,
      response_buffer_next |-> 0 ]
    : d \in { NoFile, WildFile }, ss \in { 256, 512 }, cs \in { 0, 65535 } }

(* ---------------------------------------------------------------------- *)
(* The host                                                                *)
(* ---------------------------------------------------------------------- *)
\* the bytes the host writes, by the position in the frame, when the
\* command bytes it uses are those of commands
BytesFor(c, commands) ==
  IF c.command_state = WAITING_FOR_COMMAND
    THEN { 64 + op : op \in commands } \cup { 64 + 1, 255 }
  ELSE IF c.command_state \in { WAITING_FOR_DATA0, WAITING_FOR_DATA1,
                                WAITING_FOR_DATA3 }
    THEN { 0 }
  ELSE IF c.command_state = WAITING_FOR_DATA2
    THEN IF c.current_command \in { READ_SINGLE_BLOCK, WRITE_BLOCK }
           THEN { 0, 1 }
           ELSE { 0 }
  ELSE IF c.command_state = WAITING_FOR_DATA_TOKEN
    THEN { 254, 255, 64 + READ_SINGLE_BLOCK }
  ELSE IF c.command_state = WAITING_FOR_DATA
    THEN IF c.data_count = 0 THEN { 254, 64 + READ_SINGLE_BLOCK }
         ELSE { 64 + WRITE_BLOCK + c.data_count }
  ELSE { 0, 255 }

HostBytes(c) == BytesFor(c, SupportedCommands)

HostFilenames == StorageFiles \cup { MissingFile, NoFile }

\* a host that exercises the protocol: every command, both images
ProtocolFilenames == StorageFiles

\* a host that exercises the idle flag inserts one image or none
IdleFilenames == { "a.hdf", NoFile }

\* a host that exercises the idle flag: the commands that set and clear it,
\* one with a data phase and one without, one image
IdleBytes(c) ==
  BytesFor(c, { GO_IDLE_STATE, APP_SEND_OP_COND, WRITE_BLOCK, APP_CMD })

\* a host that exercises the geometry: every image, the commands that
\* report the card's registers, two check patterns for SEND_IF_COND
GeometryFilenames == Files \cup { MissingFile, NoFile }
GeometryBytes(c) ==
  IF c.command_state = WAITING_FOR_DATA3 /\ c.current_command = SEND_IF_COND
    THEN { 0, 170 }
    ELSE BytesFor(c, { GO_IDLE_STATE, SEND_IF_COND, SEND_CSD, SEND_CID })

\* a host that exercises the storage: the block commands, every image
StorageBytes(c) ==
  BytesFor(c, { GO_IDLE_STATE, READ_SINGLE_BLOCK, WRITE_BLOCK })

\* The host's own records.  host: the argument bytes of the frame being
\* sent and the data bytes sent since the data token.  written: for each
\* sector the host has completed a WRITE_BLOCK for, the last block sent and
\* what has become of it: "kept", or discarded by "eject" or by "insert",
\* and how many WRITE_BLOCK sequences the host has completed for the sector
\* since the last eject or insert.
\* host.media: drive.disk as it was when the sixth byte of the WRITE_BLOCK
\* frame in progress was written.
NoFrame == [ args |-> << >>, data |-> << >>, media |-> NoFile ]
NothingWritten == [ n \in {} |-> NoFrame ]

\* the sector number the host means by four argument bytes
HostSector(args) ==
  args[1] * 16777216 + args[2] * 65536 + args[3] * 256 + args[4]

\* the block the host means by the data bytes it sent
HostBlock(data) == [ i \in 0 .. Len(data) - 1 |-> data[ i + 1 ] ]

host_after_write(c, data, c2) ==
  IF c.command_state = WAITING_FOR_COMMAND
    THEN NoFrame
  ELSE IF c.command_state \in WAITING_FOR_DATA0 .. WAITING_FOR_DATA3
    THEN [ host EXCEPT !.args = Append(host.args, data) ]
  ELSE IF c.command_state = WAITING_FOR_CRC
    THEN IF c2.command_state = WAITING_FOR_DATA_TOKEN
           THEN [ host EXCEPT !.media = c.drive.disk ]
           ELSE NoFrame
  ELSE IF c.command_state = WAITING_FOR_DATA_TOKEN
    THEN [ host EXCEPT !.data = << >> ]
  ELSE IF c.command_state = WAITING_FOR_DATA
    THEN [ host EXCEPT !.data = Append(host.data, data) ]
  ELSE IF c.command_state = WAITING_FOR_DATA_CRC1
    THEN host
  ELSE NoFrame

written_after_write(c) ==
  IF c.command_state = WAITING_FOR_DATA_CRC2
    THEN [ n \in DOMAIN written \cup { HostSector(host.args) } |->
             IF n = HostSector(host.args)
               THEN [ block |-> HostBlock(host.data), fate |-> "kept",
                      count |-> IF n \in DOMAIN written
                                   /\ written[n].fate = "kept"
                                  THEN written[n].count + 1 ELSE 1 ]
               ELSE written[n] ]
    ELSE written

written_after_discard(by) ==
  [ n \in DOMAIN written |->
      IF written[n].fate = "kept"
        THEN [ written[n] EXCEPT !.fate = by ]
        ELSE written[n] ]

Init ==
  /\ card \in libspectrum_mmc_alloc
  /\ card.drive.disk = NoFile => card.c_size = 0
  /\ images = [ f \in Files |-> OrigImage(f) ]
  /\ ret = 0
  /\ aborted = FALSE
  /\ frames = 0
  /\ host = NoFrame
  /\ written = NothingWritten
  /\ OthersInit

(* ---------------------------------------------------------------------- *)
(* Actions: the calls of the host                                          *)
(* ---------------------------------------------------------------------- *)
\* libspectrum_mmc_write with a write-through cache: the second data CRC
\* byte also writes the cached sectors to the image
Write_through(data) ==
  /\ ~ aborted
  /\ card.command_state = WAITING_FOR_COMMAND => frames < MaxFrames
  /\ \E o \in mmc_write(card, data, images) :
       /\ card' = o.card
       /\ aborted' = o.abort
       /\ frames' = IF card.command_state = WAITING_FOR_COMMAND
                       /\ o.card.command_state = WAITING_FOR_DATA0
                      THEN frames + 1 ELSE frames
       /\ host' = IF o.abort THEN host ELSE host_after_write(card, data, o.card)
       /\ written' = IF o.abort THEN written ELSE written_after_write(card)
       /\ images' = IF card.command_state = WAITING_FOR_DATA_CRC2
                       /\ ~ o.abort /\ card.drive.disk \in Files
                      THEN [ images EXCEPT ![ card.drive.disk ] =
                               committed_image(card.drive, o.card.cache, @) ]
                      ELSE images
  /\ ret' = 0
  /\ UNCHANGED not_mmc

Write(data) ==
  /\ ~ aborted
  /\ card.command_state = WAITING_FOR_COMMAND => frames < MaxFrames
  /\ \E o \in mmc_write(card, data, images) :
       /\ card' = o.card
       /\ aborted' = o.abort
       /\ frames' = IF card.command_state = WAITING_FOR_COMMAND
                       /\ o.card.command_state = WAITING_FOR_DATA0
                      THEN frames + 1 ELSE frames
       /\ host' = IF o.abort THEN host ELSE host_after_write(card, data, o.card)
       /\ written' = IF o.abort THEN written ELSE written_after_write(card)
  /\ ret' = 0
  /\ UNCHANGED images
  /\ UNCHANGED not_mmc

Read ==
  /\ ~ aborted
  /\ card' = mmc_read_card(card)
  /\ ret' = mmc_read_byte(card)
  /\ UNCHANGED << images, aborted, frames, host, written >>
  /\ UNCHANGED not_mmc

Insert(filename) ==
  /\ ~ aborted
  /\ \E o \in libspectrum_mmc_insert(card, filename) :
       /\ card' = o.card
       /\ aborted' = o.abort
       /\ ret' = o.error
       /\ written' = IF o.abort THEN written ELSE written_after_discard("insert")
  /\ UNCHANGED << images, frames, host >>
  /\ UNCHANGED not_mmc

Eject ==
  /\ ~ aborted
  /\ \E o \in libspectrum_mmc_eject(card) :
       /\ card' = o.card
       /\ aborted' = o.abort
       /\ written' = IF o.abort THEN written ELSE written_after_discard("eject")
  /\ ret' = 0
  /\ UNCHANGED << images, frames, host >>
  /\ UNCHANGED not_mmc

Commit ==
  /\ ~ aborted
  /\ \E o \in libspectrum_mmc_commit(card, images) :
       /\ card' = o.card
       /\ images' = o.images
       /\ aborted' = o.abort
  /\ ret' = 0
  /\ UNCHANGED << frames, host, written >>
  /\ UNCHANGED not_mmc

Next ==
  \/ \E data \in HostBytes(card) : Write(data)
  \/ Read
  \/ \E filename \in HostFilenames : Insert(filename)
  \/ Eject
  \/ Commit

Spec == Init /\ [][Next]_vars

NextProtocol ==
  \/ \E data \in HostBytes(card) : Write(data)
  \/ Read
  \/ \E filename \in ProtocolFilenames : Insert(filename)
  \/ Eject

SpecProtocol == Init /\ [][NextProtocol]_vars

\* the protocol host when it never reads a response
NextFrame ==
  \/ \E data \in HostBytes(card) : Write(data)
  \/ \E filename \in ProtocolFilenames : Insert(filename)
  \/ Eject

SpecFrame == Init /\ [][NextFrame]_vars

NextIdle ==
  \/ \E data \in IdleBytes(card) : Write(data)
  \/ Read
  \/ \E filename \in IdleFilenames : Insert(filename)
  \/ Eject
  \/ Commit

SpecIdle == Init /\ [][NextIdle]_vars

NextStorage ==
  \/ \E data \in StorageBytes(card) : Write(data)
  \/ \E filename \in HostFilenames : Insert(filename)
  \/ Eject
  \/ Commit

SpecStorage == Init /\ [][NextStorage]_vars

NextGeometry ==
  \/ \E data \in GeometryBytes(card) : Write(data)
  \/ Read
  \/ \E filename \in GeometryFilenames : Insert(filename)
  \/ Eject

SpecGeometry == Init /\ [][NextGeometry]_vars

\* a host that exercises SEND_CSD: it has inserted an image of any size
\* from one cylinder to MaxCylinders, with 512-byte sectors, and sends
\* SEND_CSD frames; only the geometry of the image matters to them
CsdDrive(cylinders) ==
  [ disk |-> "a.hdf", sector_size |-> 512, data_offset |-> 128,
    cylinders |-> cylinders, heads |-> 16, sectors |-> 32 ]

CsdBytes(c) == BytesFor(c, { SEND_CSD })

InitCsd ==
  /\ card \in { [ c EXCEPT !.drive = CsdDrive(cylinders),
                           !.c_size = mmc_c_size(CsdDrive(cylinders)) ]
                : c \in libspectrum_mmc_alloc, cylinders \in 1 .. MaxCylinders }
  /\ images = [ f \in Files |-> OrigImage(f) ]
  /\ ret = 0
  /\ aborted = FALSE
  /\ frames = 0
  /\ host = NoFrame
  /\ written = NothingWritten
  /\ OthersInit

NextCsd == \E data \in CsdBytes(card) : Write(data)

SpecCsd == InitCsd /\ [][NextCsd]_vars

(* ---------------------------------------------------------------------- *)
(* Threads that take and release the lock                                  *)
(* ---------------------------------------------------------------------- *)
\* a thread calls atomic_lock
LockCall(t) ==
  /\ thread[t].pc = "outside"
  /\ thread' = [ thread EXCEPT ![t] =
                   [ pc |-> "atomic_lock", unlocked |-> NoLocals.unlocked,
                     locked |-> NoLocals.locked, spins |-> 0 ] ]
  /\ UNCHANGED lock_ptr
  /\ UNCHANGED vars
  /\ UNCHANGED zip_vars

\* one iteration of the loop of atomic_lock; the function returns when the
\* exchange has succeeded
LockStep(t) ==
  /\ thread[t].pc = "atomic_lock"
  /\ LET i == atomic_lock_iteration(lock_ptr, thread[t])
     IN /\ lock_ptr' = i.object
        /\ thread' = [ thread EXCEPT ![t] =
             IF i.res # 0
               THEN [ pc |-> "holding", unlocked |-> NoLocals.unlocked,
                      locked |-> NoLocals.locked, spins |-> thread[t].spins ]
               ELSE [ i.thread EXCEPT !.spins =
                        IF @ < MaxSpins THEN @ + 1 ELSE @ ] ]
  /\ UNCHANGED vars
  /\ UNCHANGED zip_vars

\* the thread that atomic_lock has returned to calls atomic_unlock
UnlockCall(t) ==
  /\ thread[t].pc = "holding"
  /\ thread' = [ thread EXCEPT ![t] =
                   [ pc |-> "atomic_unlock", unlocked |-> NoLocals.unlocked,
                     locked |-> NoLocals.locked, spins |-> 0 ] ]
  /\ UNCHANGED lock_ptr
  /\ UNCHANGED vars
  /\ UNCHANGED zip_vars

\* one iteration of the loop of atomic_unlock
UnlockStep(t) ==
  /\ thread[t].pc = "atomic_unlock"
  /\ LET i == atomic_unlock_iteration(lock_ptr, thread[t])
     IN /\ lock_ptr' = i.object
        /\ thread' = [ thread EXCEPT ![t] =
             IF i.res # 0
               THEN [ pc |-> "outside", unlocked |-> NoLocals.unlocked,
                      locked |-> NoLocals.locked, spins |-> 0 ]
               ELSE [ i.thread EXCEPT !.spins =
                        IF @ < MaxSpins THEN @ + 1 ELSE @ ] ]
  /\ UNCHANGED vars
  /\ UNCHANGED zip_vars

NextGlock ==
  \/ \E t \in Threads : LockCall(t)
  \/ \E t \in Threads : LockStep(t)
  \/ \E t \in Threads : UnlockCall(t)
  \/ \E t \in Threads : UnlockStep(t)

SpecGlock == Init /\ [][NextGlock]_glock_vars

(* ---------------------------------------------------------------------- *)
(* The calls on the archive                                                *)
(* ---------------------------------------------------------------------- *)
\* libspectrum_zip_open of one of the archives
ZipOpen(a) ==
  /\ zip = NoZip
  /\ zip' = libspectrum_zip_open(a)
  /\ call' = [ op |-> "libspectrum_zip_open", ptr |-> 0,
               error |-> LIBSPECTRUM_ERROR_NONE ]
  /\ history' = << >>
  /\ previous' = << >>
  /\ UNCHANGED vars
  /\ UNCHANGED glock_vars

\* libspectrum_zip_close
ZipClose ==
  /\ zip # NoZip
  /\ zip' = NoZip
  /\ call' = [ op |-> "libspectrum_zip_close", ptr |-> zip.ptr,
               error |-> LIBSPECTRUM_ERROR_NONE ]
  /\ history' = << >>
  /\ previous' = << >>
  /\ UNCHANGED vars
  /\ UNCHANGED glock_vars

ZipRewind ==
  LET r == libspectrum_zip_rewind(zip)
  IN /\ zip' = r.z
     /\ call' = [ op |-> "libspectrum_zip_rewind", ptr |-> zip.ptr,
                  error |-> r.error ]
     /\ previous' = IF r.error = LIBSPECTRUM_ERROR_NONE THEN history
                    ELSE previous
     /\ history' = IF r.error = LIBSPECTRUM_ERROR_NONE THEN << >>
                   ELSE history
     /\ UNCHANGED vars
     /\ UNCHANGED glock_vars

ZipNext ==
  /\ Len(history) < MaxNext
  /\ LET r == libspectrum_zip_next(zip)
     IN /\ zip' = r.z
        /\ call' = [ op |-> "libspectrum_zip_next", ptr |-> zip.ptr,
                     error |-> r.error ]
        /\ history' = Append(history, [ error |-> r.error, info |-> r.info ])
  /\ UNCHANGED previous
  /\ UNCHANGED vars
  /\ UNCHANGED glock_vars

\* libspectrum_zip_read of the entry the last libspectrum_zip_next returned
ZipRead ==
  /\ history # << >>
  /\ history[ Len(history) ].error = LIBSPECTRUM_ERROR_NONE
  /\ LET r == libspectrum_zip_read(zip)
     IN /\ zip' = r.z
        /\ call' = [ op |-> "libspectrum_zip_read", ptr |-> zip.ptr,
                     error |-> r.error ]
  /\ UNCHANGED << history, previous >>
  /\ UNCHANGED vars
  /\ UNCHANGED glock_vars

NextZip ==
  \/ \E a \in Archives : ZipOpen(a)
  \/ ZipClose
  \/ ZipRewind
  \/ ZipNext
  \/ ZipRead
SpecZip == Init /\ [][NextZip]_zip_vars

NextZipIterate ==
  \/ \E a \in Archives : ZipOpen(a)
  \/ ZipClose
  \/ ZipRewind
  \/ ZipNext
SpecZipIterate == Init /\ [][NextZipIterate]_zip_vars

TypeOK ==
  /\ card.command_state \in WAITING_FOR_COMMAND .. WAITING_FOR_DATA_CRC2
  /\ card.response_buffer_next \in 0 .. ResponseLen
  /\ card.response_buffer_end \in 0 .. ResponseLen
  /\ aborted \in BOOLEAN
  /\ frames \in 0 .. MaxFrames


(* ---------------------------------------------------------------------- *)
(* Properties                                                              *)
(* ---------------------------------------------------------------------- *)
WriteStep == \E data \in HostBytes(card) : Write(data)

\* the step in which the sixth byte of a frame executes the command
ExecStep ==
  /\ card.command_state = WAITING_FOR_CRC
  /\ card'.command_state # WAITING_FOR_CRC

\* the step in which the second data CRC byte completes a data phase
DataDoneStep ==
  /\ card.command_state = WAITING_FOR_DATA_CRC2
  /\ card'.command_state # WAITING_FOR_DATA_CRC2

\* a 512-byte-sector image is inserted
Media512 == card.drive.disk \in Files /\ card.drive.sector_size = 512

\* the block of a READ_SINGLE_BLOCK response
ResponseBlock(c) == [ i \in 0 .. BlockLen - 1 |-> c.response_buffer[ 2 + i ] ]

SameResponse == /\ card'.response_buffer = card.response_buffer
                /\ card'.response_buffer_next = card.response_buffer_next
                /\ card'.response_buffer_end = card.response_buffer_end

\* the length of the response a command produces
ResponseLength(command) ==
  IF command \in { SEND_IF_COND, READ_OCR } THEN 5
  ELSE IF command \in { SEND_CSD, SEND_CID } THEN 20
  ELSE IF command = READ_SINGLE_BLOCK THEN 4 + BlockLen
  ELSE 1

\* C1: on media with 512-byte sectors, once a WRITE_BLOCK sequence for sector
\* S has completed (and no eject or insert has discarded it), a
\* READ_SINGLE_BLOCK for S executes without failing and its response holds
\* exactly the block written at offsets 2 .. 2 + BlockLen - 1, with the cursor
\* at the start, whether the block is still in the cache or has been
\* committed, whatever the image held for S.
C1_RoundTrip ==
  [][ ( /\ card.command_state = WAITING_FOR_CRC
        /\ card.current_command = READ_SINGLE_BLOCK
        /\ Media512
        /\ Len(host.args) = 4
        /\ HostSector(host.args) \in DOMAIN written
        /\ written[ HostSector(host.args) ].fate = "kept"
        /\ WriteStep )
      => ( /\ ~ aborted'
           /\ card'.response_buffer_next = 0
           /\ card'.response_buffer_end = 4 + BlockLen
           /\ ResponseBlock(card') = written[ HostSector(host.args) ].block )
    ]_vars

\* C1 witness: a block written to sector S, committed (no longer cached),
\* different from what the image first held, has just been read back.
C1_Witness ==
  /\ Media512
  /\ card.command_state = WAITING_FOR_COMMAND
  /\ card.current_command = READ_SINGLE_BLOCK
  /\ card.response_buffer_next = 0
  /\ card.response_buffer_end = 4 + BlockLen
  /\ argument_value(card) \in DOMAIN written
  /\ written[ argument_value(card) ].fate = "kept"
  /\ argument_value(card) \notin DOMAIN card.cache
  /\ ResponseBlock(card) = written[ argument_value(card) ].block
  /\ ResponseBlock(card) # OrigBlock(card.drive.disk, argument_value(card))

\* no command execution: the response, the idle flag and the cache stay
NoExecution == /\ SameResponse
               /\ card'.is_idle = card.is_idle
               /\ card'.cache = card.cache

\* C2: from WAITING_FOR_COMMAND a valid command byte, four argument bytes and
\* a CRC byte execute the command on the sixth byte and not earlier: the
\* first five bytes only record the opcode and the argument bytes in the
\* order received (first byte most significant), the sixth executes whatever
\* its value, and the state afterwards is WAITING_FOR_DATA_TOKEN for
\* WRITE_BLOCK and WAITING_FOR_COMMAND for every other command.
C2_Frame ==
  [][ ( /\ card.command_state \in WAITING_FOR_COMMAND .. WAITING_FOR_CRC
        /\ card'.command_state # card.command_state )
      => \A data \in HostBytes(card) :
           Write(data) =>
             /\ ( card.command_state = WAITING_FOR_COMMAND )
                => /\ card'.command_state = WAITING_FOR_DATA0
                   /\ card'.current_command = data % 64
                   /\ NoExecution
             /\ ( card.command_state \in WAITING_FOR_DATA0 .. WAITING_FOR_DATA3 )
                => /\ card'.command_state = card.command_state + 1
                   /\ card'.current_command = card.current_command
                   /\ card'.current_argument =
                        [ card.current_argument EXCEPT
                            ![ Len(host.args) ] = data ]
                   /\ NoExecution
             /\ ( card.command_state = WAITING_FOR_CRC )
                => /\ card'.command_state =
                        IF card.current_command = WRITE_BLOCK
                          THEN WAITING_FOR_DATA_TOKEN
                          ELSE WAITING_FOR_COMMAND
                   /\ card'.current_command = card.current_command
                   /\ card'.current_argument = card.current_argument
                   /\ Len(host.args) = 4
                   /\ argument_value(card) = HostSector(host.args)
                   /\ \A crc \in { 0, 1, 149, 255 } :
                        mmc_write(card, crc, images) = mmc_write(card, data, images)
                   /\ card.drive.disk # NoFile
                      => /\ card'.response_buffer_next = 0
                         /\ card'.response_buffer_end =
                              ResponseLength(card.current_command)
    ]_vars

\* C2 witness: a WRITE_BLOCK frame whose third argument byte was 1 has
\* executed and the card waits for the data token.
C2_Witness ==
  /\ card.command_state = WAITING_FOR_DATA_TOKEN
  /\ card.current_command = WRITE_BLOCK
  /\ card.current_argument = [ i \in 0 .. 3 |-> IF i = 2 THEN 1 ELSE 0 ]
  /\ argument_value(card) = 256
  /\ card.drive.disk \in Files
  /\ card.response_buffer_end = 1

\* the sector READ_SINGLE_BLOCK addresses is in the cache or in the image
SectorAvailable ==
  \/ argument_value(card) \in DOMAIN card.cache
  \/ /\ card.drive.disk \in Files
     /\ SectorPosition(card.drive.data_offset, card.drive.sector_size,
                       argument_value(card))
          \in DOMAIN images[ card.drive.disk ]

\* C3 as claimed: after the sixth byte of a frame of any supported command
\* a response is available: the window is not empty, the cursor is at its
\* start and the next byte read is the first byte of the command's response.
C3_Original ==
  [][ ( /\ card.command_state = WAITING_FOR_CRC
        /\ ( card'.command_state # card.command_state \/ aborted' )
        /\ WriteStep )
      => ( /\ ~ aborted'
           /\ card'.response_buffer_next = 0
           /\ card'.response_buffer_end > 0
           /\ mmc_read_byte(card') = card'.is_idle )
    ]_vars

\* C3 amended: with media inserted (drive.disk not null) and, for
\* READ_SINGLE_BLOCK, the sector in the cache or readable from the image,
\* the sixth byte of a frame leaves the command's response in the window:
\* its length is the command's, the cursor is at its start and the next byte
\* read is its first byte, the idle flag.  With no media the sixth byte
\* leaves the response window as it was, and a READ_SINGLE_BLOCK whose
\* sector can be read from neither ends the process in abort().
C3_ResponseAvailable ==
  [][ ( /\ card.command_state = WAITING_FOR_CRC
        /\ ( card'.command_state # card.command_state \/ aborted' )
        /\ WriteStep )
      => /\ ( /\ card.drive.disk # NoFile
              /\ card.current_command = READ_SINGLE_BLOCK => SectorAvailable )
            => ( /\ ~ aborted'
                 /\ card'.response_buffer_next = 0
                 /\ card'.response_buffer_end =
                      ResponseLength(card.current_command)
                 /\ mmc_read_byte(card') = card'.is_idle )
         /\ ( card.drive.disk = NoFile ) => ( ~ aborted' /\ SameResponse )
         /\ ( /\ card.drive.disk \in Files
              /\ card.current_command = READ_SINGLE_BLOCK
              /\ ~ SectorAvailable )
            => aborted'
    ]_vars

\* C3 witness: SEND_CSD has executed on inserted media over a shorter,
\* partly read response: its 20 bytes are in the window, none read.
C3_Witness ==
  /\ card.drive.disk \in Files
  /\ card.command_state = WAITING_FOR_COMMAND
  /\ card.current_command = SEND_CSD
  /\ frames = 2
  /\ card.response_buffer_next = 0
  /\ card.response_buffer_end = 20
  /\ card.response_buffer[1] = 254
  /\ card.response_buffer[0] = card.is_idle

\* the step refills the response: a command or a data phase has executed
RefillStep ==
  /\ card.command_state \in { WAITING_FOR_CRC, WAITING_FOR_DATA_CRC2 }
  /\ card'.command_state # card.command_state

\* C4: read_byte returns the pending response bytes in order, each once: a
\* read inside the window returns the byte at the cursor and moves the
\* cursor by one, a read at the end of the window returns 0xff and changes
\* nothing; the cursor moves in no other way until a command or a data
\* phase refills the response, so an exhausted window stays exhausted; the
\* window of a new card is empty.
C4_ReadByte ==
  /\ card.response_buffer_next = card.response_buffer_end
  /\ [][ /\ Read =>
              /\ IF card.response_buffer_next < card.response_buffer_end
                   THEN /\ ret' = card.response_buffer[ card.response_buffer_next ]
                        /\ card'.response_buffer_next = card.response_buffer_next + 1
                   ELSE /\ ret' = 255
                        /\ card'.response_buffer_next = card.response_buffer_next
              /\ card'.response_buffer_end = card.response_buffer_end
              /\ card'.response_buffer = card.response_buffer
         /\ ( ~ RefillStep /\ ~ SameResponse )
            => /\ Read
               /\ card.response_buffer_next < card.response_buffer_end
         /\ ( ~ RefillStep
              /\ card.response_buffer_next = card.response_buffer_end )
            => card'.response_buffer_next = card'.response_buffer_end
     ]_vars

\* C4 witness: the five bytes of an R7 response have been read and a further
\* read has returned 0xff.
C4_Witness ==
  /\ card.response_buffer_end = 5
  /\ card.response_buffer_next = 5
  /\ card.response_buffer[4] # 255
  /\ ret = 255


\* the block as READ_SINGLE_BLOCK presents it: a 256-byte sector spread over
\* the even offsets, 0xff on the odd ones
Presented(sector_size, block) ==
  IF sector_size = 256
    THEN [ j \in 0 .. BlockLen - 1 |->
             IF j % 2 = 0 THEN block[ j \div 2 ] ELSE 255 ]
    ELSE block

\* C5: after the frame of WRITE_BLOCK for sector S has executed, bytes are
\* dropped until the first 0xfe; the next BlockLen bytes are the payload,
\* the two bytes after them are CRC bytes that are ignored; the second CRC
\* byte puts the payload in the cache under S (512-byte sectors), leaves the
\* two bytes 0x05 0x05 in the response window with the cursor at its start,
\* and returns the state to WAITING_FOR_COMMAND.
C5_DataPhase ==
  [][ ( card.command_state \in WAITING_FOR_DATA_TOKEN .. WAITING_FOR_DATA_CRC2 )
      => \A data \in HostBytes(card) :
           Write(data) =>
             /\ ~ aborted'
             /\ ( card.command_state = WAITING_FOR_DATA_TOKEN )
                => IF data = 254
                     THEN /\ card'.command_state = WAITING_FOR_DATA
                          /\ host'.data = << >>
                          /\ NoExecution
                     ELSE card' = card
             /\ ( card.command_state = WAITING_FOR_DATA )
                => /\ card'.command_state =
                        IF Len(host.data) + 1 = BlockLen
                          THEN WAITING_FOR_DATA_CRC1
                          ELSE WAITING_FOR_DATA
                   /\ NoExecution
             /\ ( card.command_state = WAITING_FOR_DATA_CRC1 )
                => /\ card'.command_state = WAITING_FOR_DATA_CRC2
                   /\ NoExecution
             /\ ( card.command_state = WAITING_FOR_DATA_CRC2 )
                => /\ card'.command_state = WAITING_FOR_COMMAND
                   /\ card'.response_buffer_next = 0
                   /\ card'.response_buffer_end = 2
                   /\ card'.response_buffer[0] = 5
                   /\ card'.response_buffer[1] = 5
                   /\ Len(host.data) = BlockLen
                   /\ card.drive.sector_size = 512
                      => /\ DOMAIN card'.cache =
                              DOMAIN card.cache \cup { HostSector(host.args) }
                         /\ card'.cache[ HostSector(host.args) ] = HostBlock(host.data)
                         /\ \A n \in DOMAIN card.cache \ { HostSector(host.args) } :
                              card'.cache[n] = card.cache[n]
    ]_vars

\* C5 witness: a data phase on 512-byte-sector media has completed for a
\* payload that itself starts with the token byte: the payload is cached and
\* the window holds 0x05 0x05.
C5_Witness ==
  /\ Media512
  /\ card.command_state = WAITING_FOR_COMMAND
  /\ card.current_command = WRITE_BLOCK
  /\ card.response_buffer_next = 0
  /\ card.response_buffer_end = 2
  /\ card.response_buffer[0] = 5
  /\ card.response_buffer[1] = 5
  /\ argument_value(card) \in DOMAIN card.cache
  /\ argument_value(card) \in DOMAIN written
  /\ card.cache[ argument_value(card) ] = written[ argument_value(card) ].block
  /\ card.cache[ argument_value(card) ][0] = 254
  /\ card.cache[ argument_value(card) ][1] # 254

\* C6: GO_IDLE_STATE sets the idle flag and its response reads back 1; the
\* flag changes in no step other than the execution of GO_IDLE_STATE (to 1)
\* and of APP_SEND_OP_COND (to 0), whatever commands, reads, data phases,
\* commits, ejects and inserts come in between; and the first byte of every
\* command's response is the flag.
C6_IdleFlag ==
  [][ /\ ( card'.is_idle # card.is_idle )
         => /\ ExecStep
            /\ card.drive.disk # NoFile
            /\ \/ card.current_command = GO_IDLE_STATE /\ card'.is_idle = 1
               \/ card.current_command = APP_SEND_OP_COND /\ card'.is_idle = 0
      /\ ( ExecStep /\ card.drive.disk # NoFile )
         => /\ card.current_command = GO_IDLE_STATE => card'.is_idle = 1
            /\ card.current_command = APP_SEND_OP_COND => card'.is_idle = 0
            /\ card'.response_buffer_next = 0
            /\ card'.response_buffer_end >= 1
            /\ mmc_read_byte(card') = card'.is_idle
    ]_vars

\* C6 witness: GO_IDLE_STATE has set the flag and the response of a later
\* APP_CMD reports 1.
C6_Witness ==
  /\ card.is_idle = 1
  /\ card.command_state = WAITING_FOR_COMMAND
  /\ card.current_command = APP_CMD
  /\ frames = 2
  /\ card.drive.disk \in Files
  /\ card.response_buffer_next = 0
  /\ card.response_buffer_end = 1
  /\ card.response_buffer[0] = 1

MediaStep == Commit \/ Eject \/ \E filename \in HostFilenames : Insert(filename)

\* C7: is_dirty() is true exactly when the cache holds an entry; the cache of
\* a new card is empty, it gains an entry in the step that completes a
\* WRITE_BLOCK data phase and in no other, and it loses entries only in a
\* commit, an eject or an insert, which empty it as a whole.
C7_Dirty ==
  /\ ~ libspectrum_mmc_dirty(card)
  /\ [][ /\ libspectrum_mmc_dirty(card') = ( card'.cache # EmptyCache )
         /\ DataDoneStep => libspectrum_mmc_dirty(card')
         /\ ( DOMAIN card'.cache \ DOMAIN card.cache # {} ) => DataDoneStep
         /\ ( DOMAIN card.cache \ DOMAIN card'.cache # {} )
            => ( card'.cache = EmptyCache /\ MediaStep )
         /\ ( card'.command_state = card.command_state /\ host' = host
              /\ ~ aborted' /\ MediaStep )
            => ~ libspectrum_mmc_dirty(card')
       ]_vars

\* C7 witness: two data phases have completed and the cache holds two
\* sectors.
C7_Witness ==
  /\ libspectrum_mmc_dirty(card)
  /\ Cardinality(DOMAIN card.cache) = 2
  /\ \A n \in DOMAIN card.cache :
       n \in DOMAIN written /\ written[n].fate = "kept"

\* C8: after commit() on inserted media is_dirty() is false, the image holds
\* the bytes of every sector S that was cached at data_offset + sector_size
\* * S, and every other sector of the image, and every other image, is as it
\* was.
C8_Commit ==
  [][ ( card.drive.disk \in Files /\ card'.command_state = card.command_state
        /\ Commit )
      => LET f == card.drive.disk
             pos(n) == << card.drive.data_offset,
                          ( (card.drive.sector_size \div 256) * n ) % 16777216 >>
         IN /\ ~ aborted'
            /\ ~ libspectrum_mmc_dirty(card')
            /\ \A n \in DOMAIN card.cache :
                 /\ pos(n) \in DOMAIN images'[f]
                 /\ images'[f][ pos(n) ] = card.cache[n]
            /\ \A p \in DOMAIN images[f] \ { pos(n) : n \in DOMAIN card.cache } :
                 /\ p \in DOMAIN images'[f]
                 /\ images'[f][p] = images[f][p]
            /\ \A g \in Files \ { f } : images'[g] = images[g]
    ]_vars

\* C8 witness: a sector written by the host has been committed: the cache is
\* empty and the image holds the written block where it held other bytes.
C8_Witness ==
  /\ card.drive.disk \in Files
  /\ ~ libspectrum_mmc_dirty(card)
  /\ \E n \in DOMAIN written :
       LET p == SectorPosition(card.drive.data_offset, card.drive.sector_size, n)
       IN /\ written[n].fate = "kept"
          /\ p \in DOMAIN images[ card.drive.disk ]
          /\ p \in DOMAIN OrigImage(card.drive.disk)
          /\ images[ card.drive.disk ][p] # OrigImage(card.drive.disk)[p]
          /\ Presented(card.drive.sector_size, images[ card.drive.disk ][p])
               = Presented(card.drive.sector_size,
                           [ i \in DOMAIN images[ card.drive.disk ][p] |->
                               written[n].block[ IF card.drive.sector_size = 256
                                                   THEN 2 * i ELSE i ] ])

\* C9: eject_media() discards the cache and leaves every image as it is;
\* after it, with an image inserted again, a READ_SINGLE_BLOCK for a sector
\* whose write was discarded returns what the image holds for that sector,
\* not the discarded block.
C9_EjectDiscards ==
  [][ /\ ( card'.command_state = card.command_state /\ Eject /\ ~ aborted' )
         => /\ card'.cache = EmptyCache
            /\ card'.drive.disk = NoFile
            /\ images' = images
      /\ ( /\ card.command_state = WAITING_FOR_CRC
           /\ card.current_command = READ_SINGLE_BLOCK
           /\ card.drive.disk \in Files
           /\ Len(host.args) = 4
           /\ HostSector(host.args) \in DOMAIN written
           /\ written[ HostSector(host.args) ].fate # "kept"
           /\ ExecStep )
         => LET p == SectorPosition(card.drive.data_offset,
                                    card.drive.sector_size,
                                    HostSector(host.args))
            IN /\ p \in DOMAIN images[ card.drive.disk ]
               /\ ResponseBlock(card') =
                    Presented(card.drive.sector_size, images[ card.drive.disk ][p])
               /\ images' = images
      /\ ( images' # images ) => ( Commit /\ card.cache # EmptyCache )
    ]_vars

\* C9 witness: a block was written to sector S, the media ejected without a
\* commit and inserted again, and the read of S has returned the bytes the
\* image held from the start; no image has changed.
C9_Witness ==
  /\ card.drive.disk \in Files
  /\ card.command_state = WAITING_FOR_COMMAND
  /\ card.current_command = READ_SINGLE_BLOCK
  /\ card.response_buffer_end = 4 + BlockLen
  /\ argument_value(card) \in DOMAIN written
  /\ written[ argument_value(card) ].fate = "eject"
  /\ images = [ f \in Files |-> OrigImage(f) ]
  /\ ResponseBlock(card) =
       Presented(card.drive.sector_size,
                 OrigBlock(card.drive.disk, argument_value(card)))
  /\ ResponseBlock(card) # written[ argument_value(card) ].block

\* C10: insert_media ejects first: after it the cache is empty, whether or
\* not the image could be opened; with a null path it reports success and
\* leaves no media inserted; a failed open leaves no media inserted; a
\* successful one leaves the named image inserted.
C10_InsertEjectsFirst ==
  [][ ( card'.command_state = card.command_state /\ host' = host )
      => \A filename \in HostFilenames :
           ( Insert(filename) /\ ~ aborted' ) =>
             /\ ~ libspectrum_mmc_dirty(card')
             /\ filename = NoFile
                => ( ret' = LIBSPECTRUM_ERROR_NONE /\ card'.drive.disk = NoFile )
             /\ filename = MissingFile
                => ( ret' # LIBSPECTRUM_ERROR_NONE /\ card'.drive.disk = NoFile )
             /\ filename \in Files
                => ( ret' = LIBSPECTRUM_ERROR_NONE /\ card'.drive.disk = filename )
    ]_vars

\* C10 witness: an insert that could not open its file has discarded an
\* uncommitted write and left the card without media.
C10_Witness ==
  /\ ret = LIBSPECTRUM_ERROR_UNKNOWN
  /\ card.drive.disk = NoFile
  /\ ~ libspectrum_mmc_dirty(card)
  /\ \E n \in DOMAIN written : written[n].fate = "insert"


\* the images the specified insert_media accepts: 512-byte sectors, a
\* multiple of 1024 of them
SupportedMedia(f) ==
  /\ Geometry(f).sector_size = 512
  /\ TotalSectors(f) % 1024 = 0

\* C11: insert_media of an image whose sector size is not 512 or whose
\* total sector count is not a multiple of 1024 reports an error and leaves
\* the card without media.
C11_UnsupportedMedia ==
  [][ ( card'.command_state = card.command_state /\ host' = host )
      => \A filename \in Files :
           ( ~ SupportedMedia(filename) /\ Insert(filename) /\ ~ aborted' )
           => ( /\ ret' # LIBSPECTRUM_ERROR_NONE
                /\ card'.drive.disk = NoFile )
    ]_vars

\* what the code does instead: an image of 512 sectors of 512 bytes is
\* inserted and the call has reported success
C11_Accepted ==
  /\ card.drive.disk = "c.hdf"
  /\ ~ SupportedMedia("c.hdf")
  /\ TotalSectors("c.hdf") = 512
  /\ ret = LIBSPECTRUM_ERROR_NONE
  /\ ~ aborted

\* C12: after a successful insert_media of a supported image the stored
\* c_size is min((total_sectors >> 10) - 1, 65375).
C12_CSize ==
  [][ ( card'.command_state = card.command_state /\ host' = host )
      => \A filename \in Files :
           ( /\ SupportedMedia(filename)
             /\ Insert(filename)
             /\ ~ aborted'
             /\ ret' = LIBSPECTRUM_ERROR_NONE )
           => card'.c_size =
                LET raw == (TotalSectors(filename) \div 1024) - 1
                IN IF raw > 65375 THEN 65375 ELSE raw
    ]_vars

\* what the code does instead: the image of 1024 sectors is inserted with
\* c_size = (1024 >> 9) - 1
C12_Stored ==
  /\ card.drive.disk = "a.hdf"
  /\ TotalSectors("a.hdf") = 1024
  /\ card.c_size = 1


\* C13: with no media inserted no write_byte changes the response buffer,
\* its cursor or end, the idle flag or the cache, the bytes of a whole
\* WRITE_BLOCK frame and data phase included.
C13_NoMediaNoOp ==
  [][ ( card.drive.disk = NoFile /\ WriteStep ) => NoExecution ]_vars

\* what the code does instead: with no media inserted a data phase has
\* completed, the block is in the cache and the window holds 0x05 0x05
C13_CachedWithoutMedia ==
  /\ card.drive.disk = NoFile
  /\ card.command_state = WAITING_FOR_COMMAND
  /\ card.current_command = WRITE_BLOCK
  /\ libspectrum_mmc_dirty(card)
  /\ argument_value(card) \in DOMAIN card.cache
  /\ card.response_buffer_next = 0
  /\ card.response_buffer_end = 2
  /\ card.response_buffer[0] = 5
  /\ card.response_buffer[1] = 5
  /\ frames = 1


\* bytes whose bits 7:6 are 00, 10 and 11
MalformedBytes == { 0, 63, 128, 191, 192, 255 }

\* C14: in WAITING_FOR_COMMAND a byte whose bits 7:6 are not 01 is ignored:
\* the call changes nothing of the card (state, current command, argument
\* bytes, response window, idle flag, cache) and does not end the process.
C14_MalformedIgnored ==
  [][ ( card.command_state = WAITING_FOR_COMMAND )
      => /\ \A b \in MalformedBytes :
              mmc_write(card, b, images) = { [ abort |-> FALSE, card |-> card ] }
         /\ \A data \in HostBytes(card) \cap MalformedBytes :
              Write(data) => ( card' = card /\ ~ aborted' /\ images' = images )
    ]_vars

\* C14 witness: the first byte of the data response has been read (the call
\* returned 0x05) and an idle-line 0xff byte written after it: the card is
\* as the read left it.  No other call leaves 0 as the last value
\* returned with the cursor inside a data response and the cache in place.
C14_Witness ==
  /\ card.command_state = WAITING_FOR_COMMAND
  /\ card.current_command = WRITE_BLOCK
  /\ card.drive.disk \in Files
  /\ libspectrum_mmc_dirty(card)
  /\ card.response_buffer_end = 2
  /\ card.response_buffer_next = 1
  /\ card.response_buffer[0] = 5
  /\ ret = 0
  /\ ~ aborted


\* the step leaves everything of the card but the response buffer and its
\* window as it was, and every image
OnlyResponseChanges ==
  /\ card'.is_idle = card.is_idle
  /\ card'.cache = card.cache
  /\ card'.drive = card.drive
  /\ card'.c_size = card.c_size
  /\ card'.current_command = card.current_command
  /\ card'.current_argument = card.current_argument
  /\ images' = images

\* C15: in WAITING_FOR_COMMAND a byte with bits 7:6 = 01 whose low six bits
\* are no supported opcode is a recoverable error: the process goes on, the
\* state stays WAITING_FOR_COMMAND and the current command is unchanged.
C15_UnknownOpcodeRecoverable ==
  [][ ( card.command_state = WAITING_FOR_COMMAND )
      => \A data \in HostBytes(card) :
           ( /\ data \div 64 = 1
             /\ data % 64 \notin SupportedCommands
             /\ Write(data) )
           => ( /\ ~ aborted'
                /\ card'.command_state = WAITING_FOR_COMMAND
                /\ card'.current_command = card.current_command )
    ]_vars

\* what the code does instead: with an image inserted and the card waiting
\* for a command the process has ended in abort().  With an image inserted
\* no call but the write of an unknown opcode ends the process in this
\* state.
C15_Aborted ==
  /\ aborted
  /\ card.command_state = WAITING_FOR_COMMAND
  /\ card.drive.disk \in Files
  /\ card.current_command \in SupportedCommands

\* C16: a READ_SINGLE_BLOCK whose sector is not cached and cannot be read
\* from the image ends that command only: the response buffer and its window
\* are left as they were, the state returns to WAITING_FOR_COMMAND and the
\* process goes on.
C16_ReadFailureRecoverable ==
  [][ ( /\ card.command_state = WAITING_FOR_CRC
        /\ card.current_command = READ_SINGLE_BLOCK
        /\ card.drive.disk \in Files
        /\ ~ SectorAvailable
        /\ WriteStep )
      => ( /\ ~ aborted'
           /\ SameResponse
           /\ card'.command_state = WAITING_FOR_COMMAND )
    ]_vars

\* what the code does instead: the read of a sector past the end of the
\* inserted image has ended the process in abort()
C16_Aborted ==
  /\ aborted
  /\ card.command_state = WAITING_FOR_CRC
  /\ card.current_command = READ_SINGLE_BLOCK
  /\ card.drive.disk \in Files
  /\ argument_value(card) >= TotalSectors(card.drive.disk)
  /\ argument_value(card) \notin DOMAIN card.cache

\* C17: SEND_IF_COND leaves the five bytes idle flag, 0x00, 0x00, 0x01 and
\* the fourth argument byte in the window, the cursor at its start, and
\* changes nothing else.
C17_SendIfCond ==
  [][ ( /\ card.command_state = WAITING_FOR_CRC
        /\ card.current_command = SEND_IF_COND
        /\ card.drive.disk # NoFile
        /\ WriteStep )
      => ( /\ ~ aborted'
           /\ card'.response_buffer_next = 0
           /\ card'.response_buffer_end = 5
           /\ card'.response_buffer[0] = card.is_idle
           /\ card'.response_buffer[1] = 0
           /\ card'.response_buffer[2] = 0
           /\ card'.response_buffer[3] = 1
           /\ card'.response_buffer[4] = card.current_argument[3]
           /\ OnlyResponseChanges )
    ]_vars

\* what the code does instead: SEND_IF_COND with a fourth argument byte of
\* 0x00 has answered 00 00 01 aa
C17_ConstantPattern ==
  /\ card.command_state = WAITING_FOR_COMMAND
  /\ card.current_command = SEND_IF_COND
  /\ card.drive.disk \in Files
  /\ card.current_argument[3] = 0
  /\ card.response_buffer_next = 0
  /\ card.response_buffer_end = 5
  /\ card.response_buffer[3] = 1
  /\ card.response_buffer[4] = 170

\* C18: on media with 512-byte sectors READ_SINGLE_BLOCK with argument
\* bytes a0..a3 leaves in the window the idle flag, 0xfe, the block of
\* sector N = a0 a1 a2 a3 (big-endian, the sector index itself), from the
\* cache if N is cached and otherwise from the image at data_offset + 512 *
\* N, then two 0x00 bytes, with the cursor at the start; it changes neither
\* the cache nor any image.
C18_ReadSingleBlock ==
  [][ ( /\ card.command_state = WAITING_FOR_CRC
        /\ card.current_command = READ_SINGLE_BLOCK
        /\ Media512
        /\ Len(host.args) = 4
        /\ SectorAvailable
        /\ WriteStep )
      => LET N == HostSector(host.args)
             p == << card.drive.data_offset, (2 * N) % 16777216 >>
         IN /\ ~ aborted'
            /\ card'.command_state = WAITING_FOR_COMMAND
            /\ card'.response_buffer_next = 0
            /\ card'.response_buffer_end = 4 + BlockLen
            /\ card'.response_buffer[0] = card.is_idle
            /\ card'.response_buffer[1] = 254
            /\ ResponseBlock(card') =
                 IF N \in DOMAIN card.cache
                   THEN card.cache[N]
                   ELSE images[ card.drive.disk ][p]
            /\ card'.response_buffer[ 2 + BlockLen ] = 0
            /\ card'.response_buffer[ 3 + BlockLen ] = 0
            /\ OnlyResponseChanges
    ]_vars

\* C18 witness: sector 256 of the 512-byte-sector image, not cached, has
\* been read: the window holds what the image holds at sector 256, which is
\* not what it holds at sector 0.
C18_Witness ==
  /\ Media512
  /\ card.command_state = WAITING_FOR_COMMAND
  /\ card.current_command = READ_SINGLE_BLOCK
  /\ argument_value(card) = 256
  /\ card.cache = EmptyCache
  /\ images = [ f \in Files |-> OrigImage(f) ]
  /\ card.response_buffer_next = 0
  /\ card.response_buffer_end = 4 + BlockLen
  /\ card.response_buffer[1] = 254
  /\ ResponseBlock(card) = OrigBlock(card.drive.disk, 256)
  /\ ResponseBlock(card) # OrigBlock(card.drive.disk, 0)
  /\ card.response_buffer[ 3 + BlockLen ] = 0

\* C19: SEND_CSD leaves 20 bytes in the window: the idle flag, 0xfe, a
\* 16-byte CSD whose first byte has CSD_STRUCTURE (bits 7:6) = 1, the
\* version 2.0 marker, and whose READ_BL_LEN is 9, then two 0x00 bytes;
\* SEND_CID leaves 20 bytes: the idle flag, 0xfe and 18 bytes 0x00; neither
\* changes anything else.
C19_CsdCid ==
  [][ ( /\ card.command_state = WAITING_FOR_CRC
        /\ card.current_command \in { SEND_CSD, SEND_CID }
        /\ card.drive.disk # NoFile
        /\ WriteStep )
      => ( /\ ~ aborted'
           /\ card'.response_buffer_next = 0
           /\ card'.response_buffer_end = 20
           /\ card'.response_buffer[0] = card.is_idle
           /\ card'.response_buffer[1] = 254
           /\ card'.response_buffer[18] = 0
           /\ card'.response_buffer[19] = 0
           /\ card.current_command = SEND_CSD
              => /\ card'.response_buffer[2] \div 64 = 1
                 /\ card'.response_buffer[ 2 + 5 ] % 16 = 9
           /\ card.current_command = SEND_CID
              => \A i \in 2 .. 17 : card'.response_buffer[i] = 0
           /\ OnlyResponseChanges )
    ]_vars

\* what the code does instead: the CSD SEND_CSD has answered starts with
\* 0x00, CSD_STRUCTURE = 0
C19_NoVersionMarker ==
  /\ card.command_state = WAITING_FOR_COMMAND
  /\ card.current_command = SEND_CSD
  /\ card.drive.disk \in Files
  /\ card.response_buffer_next = 0
  /\ card.response_buffer_end = 20
  /\ card.response_buffer[1] = 254
  /\ card.response_buffer[2] = 0
  /\ card.response_buffer[ 2 + 5 ] = 9

\* C20: a new card is idle, waits for a command and has an empty response
\* window; the first R1 response it gives, if no GO_IDLE_STATE or
\* APP_SEND_OP_COND has executed, reports 1.
C20_NewCardIdle ==
  /\ card.is_idle = 1
  /\ card.command_state = WAITING_FOR_COMMAND
  /\ card.response_buffer_next = card.response_buffer_end
  /\ [][ ( /\ card.command_state = WAITING_FOR_CRC
           /\ frames = 1
           /\ card.current_command \in { APP_CMD, WRITE_BLOCK }
           /\ card.drive.disk # NoFile
           /\ WriteStep )
         => ( ~ aborted' /\ mmc_read_byte(card') = 1 )
       ]_vars

\* what the code does instead: the first command of a new card, APP_CMD,
\* has answered 0
C20_FirstResponseNotIdle ==
  /\ frames = 1
  /\ card.command_state = WAITING_FOR_COMMAND
  /\ card.current_command = APP_CMD
  /\ card.drive.disk \in Files
  /\ card.is_idle = 0
  /\ card.response_buffer_next = 0
  /\ card.response_buffer_end = 1
  /\ card.response_buffer[0] = 0

\* C21: from the execution of the frame of WRITE_BLOCK to the end of its
\* data phase no byte is taken for a command: whatever the byte written, the
\* current command stays WRITE_BLOCK, its argument is kept, no frame is
\* started, and the state stays within the data phase; it returns to
\* WAITING_FOR_COMMAND only on the second CRC byte, after the token and
\* exactly BlockLen data bytes; every byte after the token is stored as
\* data at the next index, 0xfe and command bytes included.
C21_NoCommandInDataPhase ==
  [][ ( card.command_state \in WAITING_FOR_DATA_TOKEN .. WAITING_FOR_DATA_CRC2 )
      => \A data \in HostBytes(card) :
           Write(data) =>
             /\ ~ aborted'
             /\ card.current_command = WRITE_BLOCK
             /\ card'.current_command = WRITE_BLOCK
             /\ card'.current_argument = card.current_argument
             /\ frames' = frames
             /\ card'.command_state \in
                  { WAITING_FOR_COMMAND } \cup
                  ( WAITING_FOR_DATA_TOKEN .. WAITING_FOR_DATA_CRC2 )
             /\ card'.command_state >= WAITING_FOR_DATA_TOKEN
                => card'.command_state \in
                     { card.command_state, card.command_state + 1 }
             /\ ( card'.command_state = WAITING_FOR_COMMAND )
                => /\ card.command_state = WAITING_FOR_DATA_CRC2
                   /\ card.data_count = BlockLen
                   /\ Len(host.data) = BlockLen
             /\ ( card.command_state = WAITING_FOR_DATA_TOKEN /\ data # 254 )
                => card'.command_state = WAITING_FOR_DATA_TOKEN
             /\ ( card.command_state = WAITING_FOR_DATA )
                => /\ card'.send_buffer[ card.data_count ] = data
                   /\ card'.data_count = card.data_count + 1
                   /\ card.data_count = Len(host.data)
    ]_vars

\* C21 witness: a single frame has been written, and its data phase has
\* completed for a payload whose first byte is the command byte of
\* READ_SINGLE_BLOCK: the byte is in the cache, the current command is
\* still WRITE_BLOCK.
C21_Witness ==
  /\ ~ aborted
  /\ frames = 1
  /\ card.command_state = WAITING_FOR_COMMAND
  /\ card.current_command = WRITE_BLOCK
  /\ card.response_buffer_end = 2
  /\ card.response_buffer[0] = 5
  /\ argument_value(card) \in DOMAIN card.cache
  /\ card.cache[ argument_value(card) ][0] = 64 + READ_SINGLE_BLOCK


\* C22: the default cases of do_command and of do_command_data are never
\* reached: whenever the state machine is past the command byte of a frame
\* the current command is one of the nine supported commands, and whenever
\* it is in the data phase the current command is WRITE_BLOCK; this holds
\* in the states in which the program has ended as well, so none of them was
\* entered through a default case.
C22_NoLogicError ==
  /\ ( card.command_state \in WAITING_FOR_DATA0 .. WAITING_FOR_CRC )
     => card.current_command \in SupportedCommands
  /\ ( card.command_state \in WAITING_FOR_DATA_TOKEN .. WAITING_FOR_DATA_CRC2 )
     => card.current_command = WRITE_BLOCK
  /\ ( card.command_state = WAITING_FOR_CRC )
     => \A o \in do_command(card, images) :
          o.abort => card.current_command = READ_SINGLE_BLOCK
  /\ ( card.command_state = WAITING_FOR_DATA_CRC2 )
     => \A o \in do_command_data(card) : ~ o.abort

\* C22 witness: both functions have run: the second frame written was a
\* WRITE_BLOCK whose data phase has completed.
C22_Witness ==
  /\ ~ aborted
  /\ frames = 2
  /\ card.command_state = WAITING_FOR_COMMAND
  /\ card.current_command = WRITE_BLOCK
  /\ card.response_buffer_next = 0
  /\ card.response_buffer_end = 2
  /\ card.response_buffer[0] = 5
  /\ card.response_buffer[1] = 5
  /\ argument_value(card) \in DOMAIN card.cache


\* C24: the second CRC byte of a WRITE_BLOCK sequence changes the cache,
\* the response window and the command state and nothing else: the drive,
\* c_size, the idle flag, the current command and argument, the payload and
\* every image are as they were.  No write, read, insert or eject changes
\* an image: a step that changes one is a commit of a non-empty cache to
\* the inserted image.
C24_OnlyCommitWritesImage ==
  [][ /\ ( DataDoneStep /\ \E data \in IdleBytes(card) : Write(data) )
         => /\ images' = images
            /\ card'.drive = card.drive
            /\ card'.c_size = card.c_size
            /\ card'.is_idle = card.is_idle
            /\ card'.current_command = card.current_command
            /\ card'.current_argument = card.current_argument
            /\ card'.send_buffer = card.send_buffer
            /\ card'.data_count = card.data_count
            /\ argument_value(card) \in DOMAIN card'.cache
      /\ ( images' # images )
         => /\ card.drive.disk \in Files
            /\ libspectrum_mmc_dirty(card)
            /\ ~ libspectrum_mmc_dirty(card')
            /\ \E o \in libspectrum_mmc_commit(card, images) :
                 /\ card' = o.card
                 /\ images' = o.images
            /\ UNCHANGED << frames, host, written >>
      /\ ( ( \E data \in IdleBytes(card) : Write(data) )
           \/ Read \/ Eject \/ \E filename \in IdleFilenames : Insert(filename) )
         => images' = images
    ]_vars

\* C24 witness: a WRITE_BLOCK sequence has completed and its response has
\* been read: the cache holds a block for a sector of the inserted image,
\* the image still holds its original bytes, which differ from the block.
C24_Witness ==
  /\ card.drive.disk \in Files
  /\ card.command_state = WAITING_FOR_COMMAND
  /\ card.current_command = WRITE_BLOCK
  /\ card.response_buffer_end = 2
  /\ card.response_buffer_next = 2
  /\ ret = 5
  /\ LET p == SectorPosition(card.drive.data_offset, card.drive.sector_size,
                             argument_value(card))
     IN /\ argument_value(card) \in DOMAIN card.cache
        /\ p \in DOMAIN images[ card.drive.disk ]
        /\ images[ card.drive.disk ] = OrigImage(card.drive.disk)
        /\ images[ card.drive.disk ][p] # card.cache[ argument_value(card) ]


\* C25: the cache holds one entry for each sector written since the last
\* commit, eject or insert: the second CRC byte of a WRITE_BLOCK for sector
\* S adds S to the sectors cached (one more entry if S was not cached, the
\* same number if it was), gives S the payload just sent and leaves the
\* other entries alone; no other write changes the cache.  In every state
\* each entry is the last payload the host sent for its sector, in the form
\* the sector size asks for, and with an image inserted its length is the
\* sector size of the image, 256 or 512 bytes.
C25_OneEntryPerSector ==
  [][ /\ ( DataDoneStep /\ \E data \in StorageBytes(card) : Write(data) )
         => LET S == HostSector(host.args)
            IN /\ DOMAIN card'.cache = DOMAIN card.cache \cup { S }
               /\ Cardinality(DOMAIN card'.cache) =
                    Cardinality(DOMAIN card.cache)
                      + ( IF S \in DOMAIN card.cache THEN 0 ELSE 1 )
               /\ card'.cache[S] =
                    [ i \in 0 .. ScaledLen(card.drive.sector_size) - 1 |->
                        host.data[ 1 + ( IF card.drive.sector_size = 256
                                           THEN 2 * i ELSE i ) ] ]
               /\ \A n \in DOMAIN card.cache \ { S } :
                    card'.cache[n] = card.cache[n]
      /\ ( ~ DataDoneStep /\ \E data \in StorageBytes(card) : Write(data) )
         => card'.cache = card.cache
      /\ \A n \in DOMAIN card'.cache :
           /\ n \in DOMAIN written'
           /\ written'[n].fate = "kept"
           /\ card'.cache[n] =
                [ i \in 0 .. ScaledLen(card'.drive.sector_size) - 1 |->
                    written'[n].block[ IF card'.drive.sector_size = 256
                                         THEN 2 * i ELSE i ] ]
           /\ card'.drive.disk \in Files
              => /\ card'.drive.sector_size = Geometry(card'.drive.disk).sector_size
                 /\ card'.drive.sector_size \in { 256, 512 }
                 /\ DOMAIN card'.cache[n] =
                      0 .. ScaledLen(Geometry(card'.drive.disk).sector_size) - 1
    ]_vars

\* C25 witness: the host has completed two WRITE_BLOCK sequences for the
\* same sector of the inserted image, with no eject, insert or commit
\* between them: the cache has the one entry, with the block sent last.
C25_Witness ==
  /\ card.drive.disk \in Files
  /\ images = [ f \in Files |-> OrigImage(f) ]
  /\ card.command_state = WAITING_FOR_COMMAND
  /\ Cardinality(DOMAIN card.cache) = 1
  /\ \E n \in DOMAIN card.cache :
       /\ n \in DOMAIN written
       /\ written[n].fate = "kept"
       /\ written[n].count = 2
       /\ card.cache[n] =
            [ i \in 0 .. ScaledLen(card.drive.sector_size) - 1 |->
                written[n].block[ IF card.drive.sector_size = 256
                                    THEN 2 * i ELSE i ] ]


C27_CsdLossless ==
  [][ ( ExecStep /\ card.current_command = SEND_CSD
        /\ card.drive.disk \in Files
        /\ \E data \in CsdBytes(card) : Write(data) )
      => LET b6 == card'.response_buffer[ 2 + 6 ]
             b7 == card'.response_buffer[ 2 + 7 ]
             b8 == card'.response_buffer[ 2 + 8 ]
         IN /\ card.c_size = mmc_c_size(card.drive)
            /\ card.c_size \in 0 .. 4095
            /\ { b6, b7, b8 } \subseteq 0 .. 255
            /\ (b6 % 4) * 1024 + b7 * 4 + (b8 \div 64) = card.c_size
            /\ b6 \div 4 = 0
            /\ b8 % 64 = 0
            /\ card'.response_buffer[ 2 + 5 ] = 9
            /\ card'.response_buffer[ 2 + 9 ] = 3
    ]_vars

\* C27 witness: SEND_CSD has answered on a card whose image has the most
\* cylinders that are not clamped: every bit of the field is set.
C27_Witness ==
  /\ card.drive.disk \in Files
  /\ card.drive.cylinders * card.drive.heads * card.drive.sectors = 4096 * 512
  /\ card.c_size = 4095
  /\ card.command_state = WAITING_FOR_COMMAND
  /\ card.current_command = SEND_CSD
  /\ card.response_buffer_end = 20
  /\ card.response_buffer[ 2 + 6 ] = 3
  /\ card.response_buffer[ 2 + 7 ] = 255
  /\ card.response_buffer[ 2 + 8 ] = 192


\* C28: every index into a buffer of the card is in bounds: the cursor is
\* between the start of the response buffer and the end of the response,
\* which is within the buffer, so a byte that read_byte returns is a byte
\* of the buffer; while argument bytes are awaited the index of the next
\* one is within the four bytes of the argument; while data bytes are
\* awaited the payload counter is an index of send_buffer, and once the
\* payload is complete it is the length of send_buffer and no more.
C28_IndicesInBounds ==
  /\ DOMAIN card.response_buffer = 0 .. ResponseLen - 1
  /\ DOMAIN card.send_buffer = 0 .. BlockLen - 1
  /\ DOMAIN card.current_argument = 0 .. 3
  /\ 0 <= card.response_buffer_next
  /\ card.response_buffer_next <= card.response_buffer_end
  /\ card.response_buffer_end <= ResponseLen
  /\ card.response_buffer_end \in { 0, 1, 2, 5, 20, 4 + BlockLen }
  /\ ( card.response_buffer_next < card.response_buffer_end )
     => card.response_buffer_next \in DOMAIN card.response_buffer
  /\ ( card.command_state \in WAITING_FOR_DATA0 .. WAITING_FOR_DATA3 )
     => card.command_state - 1 \in DOMAIN card.current_argument
  /\ ( card.command_state = WAITING_FOR_DATA )
     => card.data_count \in DOMAIN card.send_buffer
  /\ ( card.command_state \in { WAITING_FOR_DATA_CRC1, WAITING_FOR_DATA_CRC2 } )
     => card.data_count = BlockLen

\* C28 witness: the last byte of a payload has been stored at the last
\* index of send_buffer, and the response of the frame has been read to
\* its end.
C28_Witness ==
  /\ ~ aborted
  /\ card.command_state = WAITING_FOR_DATA_CRC1
  /\ card.data_count = BlockLen
  /\ card.send_buffer[ BlockLen - 1 ] = 64 + WRITE_BLOCK + BlockLen - 1
  /\ card.response_buffer_end = 1
  /\ card.response_buffer_next = 1


\* C29: a byte written in a state other than WAITING_FOR_CRC and
\* WAITING_FOR_DATA_CRC2 (it neither executes a command nor completes a
\* data phase) leaves the response buffer, the cursor and the end of the
\* response as they were, so bytes not yet read stay readable while the
\* next frame is sent; read_byte changes nothing of the card but the
\* cursor: the command state, the current command and argument, the
\* payload and its counter, the idle flag, the cache, the drive and every
\* image are as they were.
C29_WindowAndReadFrame ==
  [][ /\ ( card.command_state \notin { WAITING_FOR_CRC, WAITING_FOR_DATA_CRC2 }
           /\ \E data \in IdleBytes(card) : Write(data) )
         => SameResponse
      /\ Read
         => /\ card' = [ card EXCEPT !.response_buffer_next =
                           IF card.response_buffer_next < card.response_buffer_end
                             THEN card.response_buffer_next + 1
                             ELSE card.response_buffer_next ]
            /\ card'.command_state = card.command_state
            /\ card'.current_command = card.current_command
            /\ card'.current_argument = card.current_argument
            /\ card'.data_count = card.data_count
            /\ card'.send_buffer = card.send_buffer
            /\ card'.is_idle = card.is_idle
            /\ card'.cache = card.cache
            /\ card'.response_buffer = card.response_buffer
            /\ card'.response_buffer_end = card.response_buffer_end
            /\ UNCHANGED << images, aborted, frames >>
    ]_vars

\* C29 witness: the response 0x05 0x05 of a data phase was still in the
\* window when the command byte of the next frame was written, and a
\* read_byte after that byte has returned 0x05 and left the frame in
\* progress.
C29_Witness ==
  /\ ~ aborted
  /\ card.command_state = WAITING_FOR_DATA0
  /\ card.current_command # WRITE_BLOCK
  /\ card.response_buffer_end = 2
  /\ card.response_buffer_next \in 1 .. 2
  /\ card.response_buffer[0] = 5
  /\ card.response_buffer[1] = 5
  /\ ret = 5


\* C30: a WRITE_BLOCK payload goes to the cache of the media that was
\* inserted when the frame executed, and to no other: when the drive no
\* longer holds the image it held then (an eject or an insert has come
\* between the frame and the second data CRC byte), the second CRC byte
\* adds nothing to the cache; and the card is not dirty while no media is
\* inserted.
C30_WriteFollowsMedia ==
  [][ /\ ( DataDoneStep /\ host.media # card.drive.disk
           /\ \E data \in StorageBytes(card) : Write(data) )
         => card'.cache = card.cache
      /\ ( card'.drive.disk = NoFile ) => ~ libspectrum_mmc_dirty(card')
    ]_vars

\* C30 divergence: the frame of a WRITE_BLOCK executed with a.hdf inserted,
\* b.hdf was inserted before the data phase ended, and the card, whose
\* cache was emptied by the insert, has taken the whole payload and the
\* first CRC byte: the next byte puts the payload in the cache of b.hdf.
C30_LandsInOtherImage ==
  /\ ~ aborted
  /\ host.media = "a.hdf"
  /\ card.drive.disk = "b.hdf"
  /\ card.command_state = WAITING_FOR_DATA_CRC2
  /\ card.data_count = BlockLen
  /\ ~ libspectrum_mmc_dirty(card)
  /\ \A o \in do_command_data(card) :
       /\ ~ o.abort
       /\ libspectrum_mmc_dirty(o.card)
       /\ argument_value(card) \in DOMAIN o.card.cache

\* the drive libspectrum_ide_insert_into_drive leaves for an image
InsertedDrive(f) == libspectrum_ide_insert_into_drive(CsdDrive(1), f).drive

\* C31: the c_size that a successful insert stores never exceeds the
\* maximum of the clamp and does not decrease with the size of the image:
\* an image with at least as many sectors as the one inserted would get a
\* c_size at least as large; in particular an image of fewer than 512
\* sectors does not get the maximum.
C31_CSizeMonotone ==
  [][ ( card'.command_state = card.command_state /\ host' = host )
      => \A filename \in Files :
           ( /\ Insert(filename)
             /\ ~ aborted'
             /\ ret' = LIBSPECTRUM_ERROR_NONE )
           => /\ card'.c_size = mmc_c_size(card'.drive)
              /\ card'.c_size <= 4095
              /\ \A g \in Files :
                   TotalSectors(filename) <= TotalSectors(g)
                   => card'.c_size <= mmc_c_size(InsertedDrive(g))
              /\ TotalSectors(filename) < 512 => card'.c_size < 4095
    ]_vars

\* C31 divergence: the image of 256 sectors is inserted with the largest
\* c_size, above the c_size of the image of 1024 sectors.
C31_SmallImageWraps ==
  /\ ~ aborted
  /\ card.drive.disk = "b.hdf"
  /\ TotalSectors("b.hdf") = 256
  /\ card.c_size = 4095
  /\ card.c_size > mmc_c_size(InsertedDrive("a.hdf"))
  /\ TotalSectors("a.hdf") = 1024


\* the threads between a return of atomic_lock and the return of the
\* atomic_unlock that follows it
Holders == { t \in Threads : thread[t].pc \in { "holding", "atomic_unlock" } }

\* C32: with every thread calling atomic_lock and then atomic_unlock again
\* and again, under every interleaving of the exchanges at most one thread
\* is between a return of atomic_lock and the return of its atomic_unlock;
\* the lock byte is 0 or 1, and is 1 exactly while there is such a thread;
\* the first exchange of an atomic_unlock called by that thread succeeds.
C32_MutualExclusion ==
  /\ lock_ptr \in { 0, 1 }
  /\ Cardinality(Holders) <= 1
  /\ lock_ptr = 1 <=> Holders # {}
  /\ \A t \in Threads :
       thread[t].pc = "atomic_unlock"
       => /\ thread[t].spins = 0
          /\ atomic_unlock_iteration(lock_ptr, thread[t]).res = 1
          /\ atomic_unlock_iteration(lock_ptr, thread[t]).object = 0

\* C32 witness: one thread is in atomic_unlock, having taken the lock
\* after failed exchanges of its own, while the other threads are in the
\* loop of atomic_lock and have had exchanges fail.
C32_Witness ==
  \E t \in Threads :
    /\ thread[t].pc = "atomic_unlock"
    /\ lock_ptr = 1
    /\ \A u \in Threads \ { t } :
         /\ thread[u].pc = "atomic_lock"
         /\ thread[u].spins >= 1
         /\ thread[u].unlocked = 1


(* ---------------------------------------------------------------------- *)
(* C33: libspectrum_zip_read and the directory cursor                      *)
(* ---------------------------------------------------------------------- *)
\* C33: whatever libspectrum_zip_read returns, z->ptr is on return where it
\* was on entry, so the libspectrum_zip_next that follows reads what it would
\* have read without the libspectrum_zip_read.
C33_ReadRestoresCursor ==
  [][ ZipRead =>
        /\ zip'.ptr = zip.ptr
        /\ libspectrum_zip_next(zip') = libspectrum_zip_next(zip) ]_zip_vars

\* libspectrum_zip_read of an empty entry has returned and z->ptr is in the
\* file data behind the local header; the entry after the empty one is in
\* the directory, and libspectrum_zip_next does not find it
C33_CursorLeftInFileData ==
  /\ call.op = "libspectrum_zip_read"
  /\ call.error = LIBSPECTRUM_ERROR_UNKNOWN
  /\ zip.file_info.uncompressed_size = 0
  /\ zip.ptr # call.ptr
  /\ zip.ptr < zip.directory_offset
  /\ zip.file_index < zip.file_count
  /\ libspectrum_zip_next([ zip EXCEPT !.ptr = call.ptr ]).error
       = LIBSPECTRUM_ERROR_NONE
  /\ libspectrum_zip_next(zip).error # LIBSPECTRUM_ERROR_NONE


(* ---------------------------------------------------------------------- *)
(* C34: iterating over the directory                                       *)
(* ---------------------------------------------------------------------- *)
\* the calls of history that returned an entry
Yields(h) == { i \in DOMAIN h : h[i].error = LIBSPECTRUM_ERROR_NONE }

\* C34: file_index never exceeds file_count; since the last rewind
\* libspectrum_zip_next has returned at most file_count entries, each with a
\* name that fits the name buffer and an index below file_count, in
\* increasing order of index; after file_count calls, and whenever file_index
\* has reached file_count, a further call fails and changes nothing; and the
\* calls since the last rewind have returned what the same calls returned
\* after the rewind before.
C34_BoundedRestartable ==
  /\ zip.file_index <= zip.file_count
  /\ Cardinality(Yields(history)) <= zip.file_count
  /\ \A i \in Yields(history) :
       /\ Len(history[i].info.name) < FileNameSize
       /\ history[i].info.index < zip.file_count
       /\ \A j \in Yields(history) :
            i < j => history[i].info.index < history[j].info.index
  /\ Len(history) >= zip.file_count => zip.file_index = zip.file_count
  /\ zip.file_index = zip.file_count =>
       /\ libspectrum_zip_next(zip).error # LIBSPECTRUM_ERROR_NONE
       /\ libspectrum_zip_next(zip).z = zip
  /\ \A i \in DOMAIN history \cap DOMAIN previous : history[i] = previous[i]

\* long.zip has been iterated to the end twice: the first entry, whose name
\* does not fit, was skipped and the second returned with index 1, the last
\* was skipped into the end of the directory, and the calls after it failed
C34_Witness ==
  /\ zip.input_data = "long.zip"
  /\ call.op = "libspectrum_zip_next"
  /\ Len(previous) = 3
  /\ history = previous
  /\ Yields(history) = { 1 }
  /\ history[1].info.index = 1
  /\ zip.file_index = zip.file_count

====
